---- MODULE Spec2Model ----
(***************************************************************************)
(* A model of the liveness monitor of src/ping.py: read_groups, the sweep   *)
(* of ping_all_groups / ping_batch / ping_server, the per-host debounce     *)
(* state machine (update_host_status) with its ring of down/up pairs, the   *)
(* ResultProcessor that is fed with every result, and the loop of           *)
(* monitor_all_groups with the tasks of a batch, the admission gate and     *)
(* the subprocesses of execute_ping, cancellation and KeyboardInterrupt.    *)
(***************************************************************************)
EXTENDS Integers, Sequences, FiniteSets, TLC

VARIABLES
    file,                     \* the lines of self.filename, as read_groups sees them
    line_no,                  \* read_groups: the number of lines consumed so far
    current_group,            \* read_groups: local current_group
    seen_ips,                 \* read_groups: local seen_ips
    groups,                   \* self.groups: group name -> list of hosts
    group_order,              \* insertion order of the keys of self.groups
    settings,                 \* self.settings (MonitorSettings)
    pc,                       \* "settings" | "read" | "idle" | "sweep" | "render" | "done" | "failed" | "exited"
    clock,                    \* the time read by datetime.datetime.now() and time.monotonic()
    batch_no,                 \* ping_all_groups: the batch being awaited
    pending,                  \* ping_batch: positions of the batch whose ping_server has not returned
    status_history,           \* self.status_history[host] = {last_status, history}
    current_history_index,    \* self.current_history_index[host]
    consecutive_failures,     \* self.consecutive_failures[host]
    consecutive_successes,    \* self.consecutive_successes[host]
    results_cache,            \* self.results_cache[host]: deque(maxlen = max_history_entries)
    changed_hosts,            \* self.changed_hosts
    lru_cache,                \* result_processor.cache.cache
    lru_usage,                \* result_processor.cache.usage
    statistics,               \* result_processor.statistics
    rp_last_results,          \* result_processor.last_results
    use_icmplib,              \* the module global USE_ICMPLIB
    sem_capacity,             \* max_concurrent of the ProcessManager
    sem_value,                \* process_manager.semaphore: free permits
    sem_waiters,              \* process_manager.semaphore: waiting tasks, oldest first
    tasks,                    \* the ping_server tasks of the gathered batch, by position
    active_processes,         \* process_manager.active_processes
    group_results,            \* ping_all_groups: results gathered so far, by group
    running,                  \* self.running
    last_update_time,         \* monitor_all_groups: local last_update_time
    current_time,             \* monitor_all_groups: local current_time
    screen_update_counter,    \* self.screen_update_counter
    memory_optimizer,         \* self.memory_optimizer: iteration, gc switched on
    frame,                    \* the last frame printed by monitor_all_groups
    cancel_requested,         \* the task of monitor_all_groups has been cancelled
    exit_status,              \* the exit status of the process, once main has ended
    stdin,                    \* the lines of standard input, as input() returns them
    stdin_pos,                \* the number of lines input() has returned
    prompt,                   \* get_monitor_settings: the value being asked for
    answers,                  \* get_monitor_settings: locals interval, failure_threshold
    row_result,               \* format_result_row: the result to format, its host as text
    row_history,              \* format_result_row: status_history[result.host]["history"]
    row,                      \* the cells of the last row formatted, <<>> before
    lru_capacity,             \* result_processor.cache.capacity
    lru_calls,                \* the calls made on an LRUCache that is driven on its own
    network                   \* hosts that answer every probe ("up") or none ("down") from now on

vars == <<file, line_no, current_group, seen_ips, groups, group_order, settings,
          pc, clock, batch_no, pending, status_history, current_history_index,
          consecutive_failures, consecutive_successes, results_cache,
          changed_hosts, lru_cache, lru_usage, statistics, rp_last_results,
          use_icmplib, sem_capacity, sem_value, sem_waiters, tasks,
          active_processes, group_results, running, last_update_time,
          current_time, screen_update_counter, memory_optimizer, frame,
          cancel_requested, exit_status, stdin, stdin_pos, prompt, answers,
          row_result, row_history, row, lru_capacity, lru_calls, network>>

----------------------------------------------------------------------------
(* Bounds of the model. *)

\* thresholds are drawn from 1..MaxThreshold (the program accepts 1..10)
MaxThreshold == 2
\* number of sweeps of the two-host monitor
MaxSweeps == 5
\* number of sweeps of the single-host monitor used for the ring
MaxRingSweeps == 12
\* number of lines of the input files enumerated for read_groups
MaxLines == 4
\* number of lines of the files enumerated for sort_ip_addresses
MaxSortLines == 3
\* host identifiers of up to MaxNarrow single-width characters followed by up
\* to MaxWide double-width characters are formatted
MaxNarrow == 16
MaxWide == 8
\* an LRUCache of 1..MaxCapacity entries is driven through up to MaxCalls calls
MaxCapacity == 2
MaxCalls == 4
\* batches of 1..MaxBatch hosts are dispatched
MaxBatch == 2
\* number of sweeps of the single-host monitor under fairness
MaxDebounceSweeps == 6
\* number of lines of standard input enumerated for get_monitor_settings
MaxEntries == 4
\* the monitor loop is followed until the clock shows MaxLoopTime
MaxLoopTime == 2
\* intervals are drawn from 1..MaxInterval (the program accepts 1..60)
MaxInterval == 1
\* the monitor loop under fairness is followed until the clock shows MaxFairTime
MaxFairTime == 1
\* the admission gate is given one permit or MaxGate permits
MaxGate == 2

(* Program constants. *)

history_count == 3
max_history_entries == 100
batch_size == 500
cache_size == 3000
max_concurrent == 500
screen_clear_every == 5
SortSentinel == 999

\* Python's None where a datetime is expected; real timestamps are >= 1
NoTime == 0

\* the tri-state of last_status: None, True, False
StatusNone == "None"
StatusUp == "True"
StatusDown == "False"

DefaultGroup == "default"

EmptyMap == [x \in {} |-> 0]

----------------------------------------------------------------------------
(* Lines of the input file. A host identifier is the sequence of the parts *)
(* that ip.split(".") yields; a part is the integer int(part) returns, or  *)
(* BadPart when int(part) raises ValueError.                               *)

BadPart == -1
\* the exit status while main has not ended
StillRunning == -1
\* get_monitor_settings has not assigned its locals yet
NoAnswers == [interval |-> 0, failure_threshold |-> 0]
\* no frame has been printed yet
NoFrame == [update_time |-> NoTime, results |-> EmptyMap, history |-> EmptyMap]

HostLine(ip) == [kind |-> "host", name |-> "", ip |-> ip]
GroupLine(name) == [kind |-> "group", name |-> name, ip |-> <<>>]
BlankLine == [kind |-> "blank", name |-> "", ip |-> <<>>]

H1 == <<10, 0, 0, 1>>
H2 == <<10, 0, 0, 2>>

\* the file of the two-host monitor and of the single-host monitor
MonitorFile == <<GroupLine("G"), HostLine(H2), HostLine(H1)>>
TwoGroupsFile == <<HostLine(H1), GroupLine("G"), HostLine(H2)>>
DupFile == <<HostLine(H1), HostLine(H1)>>
RingFile == <<HostLine(H1)>>

\* the alphabet of the files enumerated for read_groups
ReadLines == {HostLine(H1), HostLine(H2), GroupLine("G"), GroupLine("H"), BlankLine}

RECURSIVE SeqsUpTo(_, _)
SeqsUpTo(S, n) ==
    IF n = 0 THEN {<<>>}
    ELSE LET shorter == SeqsUpTo(S, n - 1)
         IN shorter \cup {Append(s, x) : s \in {t \in shorter : Len(t) = n - 1}, x \in S}

----------------------------------------------------------------------------
(* sort_ip_addresses *)

ip_to_tuple(ip) ==
    IF \E i \in 1..Len(ip) : ip[i] = BadPart
    THEN <<SortSentinel, SortSentinel, SortSentinel, SortSentinel>>
    ELSE ip

\* Python's tuple comparison a < b
TupleLess(a, b) ==
    \E i \in 1..(Len(a) + 1) :
        /\ \A j \in 1..(i - 1) : j <= Len(b) /\ a[j] = b[j]
        /\ IF i <= Len(a) THEN i <= Len(b) /\ a[i] < b[i]
                          ELSE Len(b) >= i

\* insertion of x behind every element that is not greater: a stable sort
RECURSIVE InsertSorted(_, _)
InsertSorted(s, x) ==
    IF s = <<>> THEN <<x>>
    ELSE IF TupleLess(ip_to_tuple(x), ip_to_tuple(Head(s)))
         THEN <<x>> \o s
         ELSE <<Head(s)>> \o InsertSorted(Tail(s), x)

RECURSIVE SortFrom(_, _)
SortFrom(done, rest) ==
    IF rest = <<>> THEN done
    ELSE SortFrom(InsertSorted(done, Head(rest)), Tail(rest))

sort_ip_addresses(ips) == SortFrom(<<>>, ips)

----------------------------------------------------------------------------
(* initialize_host_status *)

EmptySlot == [down |-> NoTime, up |-> NoTime]

InitialHostStatus ==
    [last_status |-> StatusNone,
     history |-> [i \in 0..(history_count - 1) |-> EmptySlot]]

\* dict assignment d[k] = v
Put(d, k, v) == [x \in (DOMAIN d) \cup {k} |-> IF x = k THEN v ELSE d[x]]

initialize_host_status(host) ==
    /\ status_history' = Put(status_history, host, InitialHostStatus)
    /\ current_history_index' = Put(current_history_index, host, 0)
    /\ consecutive_failures' = Put(consecutive_failures, host, 0)
    /\ consecutive_successes' = Put(consecutive_successes, host, 0)
    /\ results_cache' = Put(results_cache, host, <<>>)

hostVars == <<status_history, current_history_index, consecutive_failures,
              consecutive_successes, results_cache>>
processorVars == <<lru_cache, lru_usage, statistics, rp_last_results>>
readVars == <<file, line_no, current_group, seen_ips, groups, group_order>>
sweepVars == <<pc, clock, batch_no, pending>>
gateVars == <<sem_value, sem_waiters>>
taskVars == <<tasks, active_processes, group_results>>
loopVars == <<running, last_update_time, current_time, screen_update_counter,
              memory_optimizer, frame, cancel_requested, exit_status>>
promptVars == <<stdin, stdin_pos, prompt, answers>>
\* what the monitor, once constructed, never writes
tableVars == <<row_result, row_history, row>>
cacheVars == <<lru_capacity, lru_calls>>
fixedVars == <<use_icmplib, sem_capacity, promptVars, tableVars, cacheVars, network>>
configVars == <<settings, fixedVars>>
monitorVars == <<fixedVars, gateVars, taskVars, loopVars>>

----------------------------------------------------------------------------
(* read_groups: one step per line of the file, then the sort of every group *)

ReadLine ==
    /\ pc = "read"
    /\ line_no < Len(file)
    /\ LET line == file[line_no + 1] IN
       /\ line_no' = line_no + 1
       /\ CASE line.kind = "blank" ->
                 UNCHANGED <<current_group, groups, group_order, seen_ips, hostVars>>
            [] line.kind = "group" ->
                 /\ current_group' = line.name
                 /\ groups' = Put(groups, line.name, <<>>)
                 /\ group_order' = IF line.name \in DOMAIN groups
                                   THEN group_order
                                   ELSE Append(group_order, line.name)
                 /\ UNCHANGED <<seen_ips, hostVars>>
            [] line.kind = "host" ->
                 /\ groups' = [groups EXCEPT ![current_group] = Append(@, line.ip)]
                 /\ IF line.ip \notin seen_ips
                    THEN /\ initialize_host_status(line.ip)
                         /\ seen_ips' = seen_ips \cup {line.ip}
                    ELSE UNCHANGED <<seen_ips, hostVars>>
                 /\ UNCHANGED <<current_group, group_order>>
    /\ UNCHANGED <<file, settings, pc, clock, batch_no, pending, changed_hosts,
                   processorVars, monitorVars>>

SortGroups ==
    /\ pc = "read"
    /\ line_no = Len(file)
    /\ groups' = [g \in DOMAIN groups |-> sort_ip_addresses(groups[g])]
    /\ pc' = "idle"
    /\ UNCHANGED <<file, line_no, current_group, seen_ips, group_order, settings,
                   clock, batch_no, pending, hostVars, changed_hosts, processorVars,
                   monitorVars>>

----------------------------------------------------------------------------
(* PingMonitor.update_host_status and the two ring operations. They work on *)
(* the entries of one host, gathered in a record.                           *)

HostState(host) ==
    [status_history |-> status_history[host],
     current_history_index |-> current_history_index[host],
     consecutive_failures |-> consecutive_failures[host],
     consecutive_successes |-> consecutive_successes[host],
     results_cache |-> results_cache[host],
     changed |-> host \in changed_hosts]

PingResult(host, success, response_time, timestamp) ==
    [host |-> host, success |-> success, response_time |-> response_time,
     timestamp |-> timestamp]

\* variant: the entry is written into the slot behind the current one
update_failure_status_next_slot(st, timestamp) ==
    LET next_idx == (st.current_history_index + 1) % history_count IN
    [st EXCEPT !.status_history.history[next_idx] =
                   [down |-> timestamp, up |-> NoTime],
               !.status_history.last_status = StatusDown]

update_failure_status(st, timestamp) ==
    LET current_idx == st.current_history_index IN
    [st EXCEPT !.status_history.history[current_idx] =
                   [down |-> timestamp, up |-> NoTime],
               !.status_history.last_status = StatusDown]

\* variant: the slot is closed but the index stays where it is
update_recovery_status_keeping_index(st, timestamp) ==
    LET current_idx == st.current_history_index
        closed == IF st.status_history.history[current_idx].down # NoTime
                  THEN [st EXCEPT !.status_history.history[current_idx].up = timestamp]
                  ELSE st
    IN [closed EXCEPT !.status_history.last_status = StatusUp]

update_recovery_status(st, timestamp) ==
    LET current_idx == st.current_history_index
        closed == IF st.status_history.history[current_idx].down # NoTime
                  THEN [st EXCEPT !.status_history.history[current_idx].up = timestamp,
                                  !.current_history_index =
                                      (current_idx + 1) % history_count]
                  ELSE st
    IN [closed EXCEPT !.status_history.last_status = StatusUp]

\* deque(maxlen = n).append(x)
DequeAppend(d, x, n) ==
    IF Len(d) >= n THEN Append(Tail(d), x) ELSE Append(d, x)

\* variant: a failure does not reset the success streak
count_failure_keeping_successes(st) ==
    [st EXCEPT !.consecutive_failures = @ + 1]

\* consecutive_failures += 1; consecutive_successes = 0
count_failure(st) ==
    [st EXCEPT !.consecutive_failures = @ + 1, !.consecutive_successes = 0]

\* variant: a success does not reset the failure streak
count_success_keeping_failures(st) ==
    [st EXCEPT !.consecutive_successes = @ + 1]

\* consecutive_failures = 0; consecutive_successes += 1
count_success(st) ==
    [st EXCEPT !.consecutive_failures = 0, !.consecutive_successes = @ + 1]

\* variant: the status of the host is not looked at
failure_confirmed_any_status(st, current_status, stg) ==
    st.consecutive_failures >= stg.failure_threshold

\* variant: the threshold has to be exceeded
failure_confirmed_late(st, current_status, stg) ==
    /\ st.consecutive_failures > stg.failure_threshold
    /\ current_status # StatusDown

\* variant: only a host seen Up can go Down
failure_confirmed_from_up(st, current_status, stg) ==
    /\ st.consecutive_failures >= stg.failure_threshold
    /\ current_status = StatusUp

\* consecutive_failures >= failure_threshold and current_status is not False
failure_confirmed(st, current_status, stg) ==
    /\ st.consecutive_failures >= stg.failure_threshold
    /\ current_status # StatusDown

\* consecutive_successes >= recovery_threshold
\* variant: no run of successes is long enough
recovery_never_confirmed(st, stg) == FALSE

recovery_confirmed(st, stg) ==
    st.consecutive_successes >= stg.recovery_threshold

\* variant: the first success also moves the ring index on
first_success_advancing_index(st) ==
    [st EXCEPT !.status_history.last_status = StatusUp,
               !.current_history_index = (@ + 1) % history_count]

\* `elif current_status is None`: the host is seen up for the first time
first_success(st) == [st EXCEPT !.status_history.last_status = StatusUp]

update_host_status(st, result, stg) ==
    LET current_status == st.status_history.last_status
        stepped ==
            IF ~result.success
            THEN LET counted == count_failure(st)
                 IN IF failure_confirmed(counted, current_status, stg)
                    THEN [update_failure_status(counted, result.timestamp)
                              EXCEPT !.changed = TRUE]
                    ELSE counted
            ELSE LET counted == count_success(st)
                 IN IF current_status = StatusDown
                    THEN IF recovery_confirmed(counted, stg)
                         THEN [update_recovery_status(counted, result.timestamp)
                                   EXCEPT !.changed = TRUE]
                         ELSE counted
                    ELSE IF current_status = StatusNone
                         THEN first_success(counted)
                         ELSE counted
    IN [stepped EXCEPT !.results_cache = DequeAppend(@, result, max_history_entries)]

----------------------------------------------------------------------------
(* LRUCache and ResultProcessor.process_result *)

\* deque.remove(x): the first occurrence
RECURSIVE Remove(_, _)
Remove(s, x) ==
    IF s = <<>> THEN <<>>
    ELSE IF Head(s) = x THEN Tail(s) ELSE <<Head(s)>> \o Remove(Tail(s), x)

Without(d, k) == [x \in (DOMAIN d) \ {k} |-> d[x]]

\* variant: a get that leaves the usage queue as it is
LRUCache_get_without_touch(c, key) == c

\* LRUCache.get on c = [cache, usage, capacity]: the cache after the call
LRUCache_get(c, key) ==
    IF key \notin DOMAIN c.cache THEN c
    ELSE [c EXCEPT !.usage = Append(Remove(@, key), key)]

\* LRUCache.put on c = [cache, usage, capacity]
LRUCache_put(c, key, value) ==
    LET made_room ==
            IF key \in DOMAIN c.cache
            THEN [c EXCEPT !.usage = Remove(@, key)]
            ELSE IF Cardinality(DOMAIN c.cache) >= c.capacity
                 THEN [c EXCEPT !.usage = Tail(@),
                                !.cache = Without(@, Head(c.usage))]
                 ELSE c
    IN [made_room EXCEPT !.cache = Put(@, key, value), !.usage = Append(@, key)]

DefaultStatistics == [success |-> 0, total |-> 0, last_status |-> StatusNone]

\* statistics[host] of the defaultdict
StatisticsOf(stats, host) ==
    IF host \in DOMAIN stats THEN stats[host] ELSE DefaultStatistics

BoolStatus(b) == IF b THEN StatusUp ELSE StatusDown

\* variant: last_status is set by the first result only
process_result_keeping_status(result) ==
    LET c == LRUCache_put([cache |-> lru_cache, usage |-> lru_usage,
                           capacity |-> lru_capacity], result.host, result)
        old == StatisticsOf(statistics, result.host)
    IN /\ lru_cache' = c.cache
       /\ lru_usage' = c.usage
       /\ statistics' = Put(statistics, result.host,
              [success |-> IF result.success THEN old.success + 1 ELSE old.success,
               total |-> old.total + 1,
               last_status |-> IF old.total = 0 THEN BoolStatus(result.success)
                                                ELSE old.last_status])
       /\ rp_last_results' = Put(rp_last_results, result.host, result)

\* variant: one set of counters is shared by all hosts
process_result_shared_counters(result) ==
    LET c == LRUCache_put([cache |-> lru_cache, usage |-> lru_usage,
                           capacity |-> lru_capacity], result.host, result)
        old == StatisticsOf(statistics, result.host)
        new == [success |-> IF result.success THEN old.success + 1 ELSE old.success,
                total |-> old.total + 1,
                last_status |-> BoolStatus(result.success)]
    IN /\ lru_cache' = c.cache
       /\ lru_usage' = c.usage
       /\ statistics' = [h \in DOMAIN Put(statistics, result.host, new) |-> new]
       /\ rp_last_results' = Put(rp_last_results, result.host, result)

process_result(result) ==
    LET c == LRUCache_put([cache |-> lru_cache, usage |-> lru_usage,
                           capacity |-> lru_capacity], result.host, result)
        old == StatisticsOf(statistics, result.host)
    IN /\ lru_cache' = c.cache
       /\ lru_usage' = c.usage
       /\ statistics' = Put(statistics, result.host,
              [success |-> IF result.success THEN old.success + 1 ELSE old.success,
               total |-> old.total + 1,
               last_status |-> BoolStatus(result.success)])
       /\ rp_last_results' = Put(rp_last_results, result.host, result)

\* variant: the rate is taken over the successes only
get_host_stats_of_successes(stats, host) ==
    LET st == StatisticsOf(stats, host)
    IN IF st.total = 0
       THEN [success_rate |-> [num |-> 0, den |-> 1], last_status |-> StatusNone]
       ELSE [success_rate |-> [num |-> st.success * 100, den |-> st.success + 1],
             last_status |-> st.last_status]

\* ResultProcessor.get_host_stats. The rate (success / total) * 100 is kept
\* as the fraction num / den it stands for; 0.0 is 0 / 1.
get_host_stats(stats, host) ==
    LET st == StatisticsOf(stats, host)
    IN IF st.total = 0
       THEN [success_rate |-> [num |-> 0, den |-> 1], last_status |-> StatusNone]
       ELSE [success_rate |-> [num |-> st.success * 100, den |-> st.total],
             last_status |-> st.last_status]

----------------------------------------------------------------------------
(* ping_all_groups, ping_batch, ping_server *)

Min(a, b) == IF a <= b THEN a ELSE b

\* hosts[i : i + size] for i in range(0, len(hosts), size)
RECURSIVE GroupBatches(_, _)
GroupBatches(hosts, size) ==
    IF hosts = <<>> THEN <<>>
    ELSE <<SubSeq(hosts, 1, Min(size, Len(hosts)))>>
         \o GroupBatches(SubSeq(hosts, size + 1, Len(hosts)), size)

\* the batches of one sweep, in the order ping_all_groups awaits them
RECURSIVE BatchesFrom(_)
BatchesFrom(order) ==
    IF order = <<>> THEN <<>>
    ELSE GroupBatches(groups[Head(order)], settings.batch_size)
         \o BatchesFrom(Tail(order))

Batches == BatchesFrom(group_order)

\* the outcomes of execute_ping: (False, 0.0) or (True, latency)
ProbeOutcomes == {[success |-> FALSE, response_time |-> 0],
                  [success |-> TRUE, response_time |-> 1]}

\* monitor_all_groups starts ping_all_groups; the first batch is gathered.
\* The clock advances from one sweep to the next: the results of one sweep
\* carry the time of that sweep as their timestamp.
StartSweep(limit) ==
    /\ pc = "idle"
    /\ clock < limit
    /\ clock' = clock + 1
    /\ IF Batches = <<>>
       THEN UNCHANGED <<pc, batch_no, pending>>
       ELSE /\ pc' = "sweep"
            /\ batch_no' = 1
            /\ pending' = 1..Len(Batches[1])
    /\ UNCHANGED <<readVars, settings, hostVars, changed_hosts, processorVars,
                   monitorVars>>

\* the part of ping_server after execute_ping has returned, for the task at
\* position p of the batch: update_host_status, then process_result
PingServer(p, outcome) ==
    /\ pc = "sweep"
    /\ p \in pending
    /\ LET host == Batches[batch_no][p]
           result == PingResult(host, outcome.success, outcome.response_time, clock)
           st == update_host_status(HostState(host), result, settings)
       IN /\ status_history' = [status_history EXCEPT ![host] = st.status_history]
          /\ current_history_index' =
                 [current_history_index EXCEPT ![host] = st.current_history_index]
          /\ consecutive_failures' =
                 [consecutive_failures EXCEPT ![host] = st.consecutive_failures]
          /\ consecutive_successes' =
                 [consecutive_successes EXCEPT ![host] = st.consecutive_successes]
          /\ results_cache' = [results_cache EXCEPT ![host] = st.results_cache]
          /\ changed_hosts' = IF st.changed THEN changed_hosts \cup {host}
                                            ELSE changed_hosts
          /\ process_result(result)
    /\ pending' = pending \ {p}
    /\ UNCHANGED <<readVars, settings, pc, clock, batch_no, monitorVars>>

\* asyncio.gather of the batch has returned: the next batch, or the sweep ends
BatchDone ==
    /\ pc = "sweep"
    /\ pending = {}
    /\ IF batch_no < Len(Batches)
       THEN /\ batch_no' = batch_no + 1
            /\ pending' = 1..Len(Batches[batch_no + 1])
            /\ UNCHANGED pc
       ELSE /\ pc' = "idle"
            /\ UNCHANGED <<batch_no, pending>>
    /\ UNCHANGED <<readVars, settings, clock, hostVars, changed_hosts, processorVars,
                   monitorVars>>

----------------------------------------------------------------------------
(* monitor_all_groups with its tasks: the polling loop, the ping_server     *)
(* tasks of a gathered batch with the admission gate of execute_ping, the   *)
(* render, cancellation and KeyboardInterrupt. Time is counted in polling   *)
(* sleeps: one unit of clock is one asyncio.sleep(0.1) of the loop.         *)

\* the group each batch of the sweep belongs to, in the order of Batches
RECURSIVE BatchGroupsFrom(_)
BatchGroupsFrom(order) ==
    IF order = <<>> THEN <<>>
    ELSE [i \in 1..Len(GroupBatches(groups[Head(order)], settings.batch_size))
              |-> Head(order)]
         \o BatchGroupsFrom(Tail(order))

BatchGroups == BatchGroupsFrom(group_order)

NoResult == [host |-> <<>>, success |-> FALSE, response_time |-> 0,
             timestamp |-> NoTime]

\* a ping_server task as gather creates it: at its first sleep, nothing
\* awaited has ended, no subprocess, no result. Its pc goes from "jitter"
\* (the sleep of ping_server) to "gate" (waiting for a permit), "inside"
\* (permit held), "probing" (async_ping or proc.communicate awaited),
\* "ended" (what was awaited is over) and "done", or to "cancelled"; its
\* proc is "none", "running", "exited", "killed" or "gone".
NewTask == [pc |-> "jitter", event |-> "none", proc |-> "none",
            result |-> NoResult]

\* the task is over: it returned its result or it was cancelled
Terminal(t) == t.pc \in {"done", "cancelled"}

\* variant: only the first host of the batch gets its task
ping_batch_first_host(hosts) == [p \in 1..Min(1, Len(hosts)) |-> NewTask]

\* ping_batch: one task per host of the batch, all created before gather waits
ping_batch(hosts) == [p \in 1..Len(hosts) |-> NewTask]

\* the ways the awaited probe ends: the host answered, it did not (exit
\* status not 0, is_alive False), wait_for timed out, an exception was raised
ProbeEvents == {"alive", "dead", "timeout", "exception"}

\* variant: a timeout returns the time that was waited
execute_ping_timing_timeout(event) ==
    IF event = "alive" THEN [success |-> TRUE, response_time |-> 1]
    ELSE IF event = "timeout" THEN [success |-> FALSE, response_time |-> 1]
         ELSE [success |-> FALSE, response_time |-> 0]

\* what execute_ping returns for the way its probe ended: (True, latency),
\* or (False, 0.0) from the return statements of the failure paths and of
\* the handlers of asyncio.TimeoutError and Exception
execute_ping(event) ==
    IF event = "alive" THEN [success |-> TRUE, response_time |-> 1]
    ELSE [success |-> FALSE, response_time |-> 0]

\* not (elapsed < self.settings.interval)
sweep_due(now, last, stg) == ~(now - last < stg.interval)

\* variant: acquire never waits
semaphore_always_free(value, waiters) == TRUE

\* asyncio.Semaphore.acquire returns at once when a permit is free and no
\* earlier task waits
semaphore_free(value, waiters) == value > 0 /\ waiters = <<>>

\* os.killpg(os.getpgid(proc.pid), signal.SIGTERM) or proc.kill(): a running
\* subprocess is signalled, one that has exited is not found any more
\* (ProcessLookupError, ignored)
terminate(proc) == IF proc = "running" THEN "killed" ELSE "gone"

\* variant: the finally is missing
finally_missing(t, active, p) == [active |-> active, proc |-> t.proc]

\* the finally of execute_ping on the subprocess of position p: it is taken
\* out of active_processes, then terminated
finally_terminate(t, active, p) ==
    IF p \in active
    THEN [active |-> active \ {p}, proc |-> terminate(t.proc)]
    ELSE [active |-> active, proc |-> t.proc]

\* lines 368-370 of ping_server, which run without suspension:
\* update_host_status, then result_processor.process_result
record_result(result) ==
    LET st == update_host_status(HostState(result.host), result, settings)
    IN /\ status_history' = [status_history EXCEPT ![result.host] = st.status_history]
       /\ current_history_index' =
              [current_history_index EXCEPT ![result.host] = st.current_history_index]
       /\ consecutive_failures' =
              [consecutive_failures EXCEPT ![result.host] = st.consecutive_failures]
       /\ consecutive_successes' =
              [consecutive_successes EXCEPT ![result.host] = st.consecutive_successes]
       /\ results_cache' = [results_cache EXCEPT ![result.host] = st.results_cache]
       /\ changed_hosts' = IF st.changed THEN changed_hosts \cup {result.host}
                                         ELSE changed_hosts
       /\ process_result(result)

\* an iteration of the loop that finds the interval not elapsed: it sleeps
Poll(limit) ==
    /\ pc = "idle"
    /\ running
    /\ ~cancel_requested
    /\ ~sweep_due(clock, last_update_time, settings)
    /\ clock < limit
    /\ current_time' = clock
    /\ clock' = clock + 1
    /\ UNCHANGED <<readVars, configVars, pc, batch_no, pending, hostVars,
                   changed_hosts, processorVars, gateVars, taskVars, running,
                   last_update_time, screen_update_counter, memory_optimizer,
                   frame, cancel_requested, exit_status>>

\* an iteration of the loop that finds the interval elapsed: ping_all_groups
\* starts and gathers the first batch
SweepBegin ==
    /\ pc = "idle"
    /\ running
    /\ ~cancel_requested
    /\ sweep_due(clock, last_update_time, settings)
    /\ current_time' = clock
    /\ group_results' = [g \in DOMAIN groups |-> <<>>]
    /\ IF Batches = <<>>
       THEN /\ pc' = "render"
            /\ UNCHANGED <<batch_no, pending, tasks>>
       ELSE /\ pc' = "sweep"
            /\ batch_no' = 1
            /\ tasks' = ping_batch(Batches[1])
            /\ pending' = DOMAIN ping_batch(Batches[1])
    /\ UNCHANGED <<readVars, configVars, clock, hostVars, changed_hosts,
                   processorVars, gateVars, active_processes, running,
                   last_update_time, screen_update_counter, memory_optimizer,
                   frame, cancel_requested, exit_status>>

\* time passes while a probe is awaited
TimePasses(limit) ==
    /\ pc = "sweep"
    /\ \E p \in DOMAIN tasks : tasks[p].pc = "probing"
    /\ clock < limit
    /\ clock' = clock + 1
    /\ UNCHANGED <<readVars, configVars, pc, batch_no, pending, hostVars,
                   changed_hosts, processorVars, gateVars, taskVars, loopVars>>

\* the task at position p leaves the sleep of ping_server and enters
\* execute_ping: async with self.semaphore
TaskAcquire(p) ==
    /\ pc = "sweep"
    /\ ~cancel_requested
    /\ tasks[p].pc = "jitter"
    /\ IF semaphore_free(sem_value, sem_waiters)
       THEN /\ sem_value' = sem_value - 1
            /\ tasks' = [tasks EXCEPT ![p].pc = "inside"]
            /\ UNCHANGED sem_waiters
       ELSE /\ sem_waiters' = Append(sem_waiters, p)
            /\ tasks' = [tasks EXCEPT ![p].pc = "gate"]
            /\ UNCHANGED sem_value
    /\ UNCHANGED <<readVars, configVars, sweepVars, hostVars, changed_hosts,
                   processorVars, active_processes, group_results, loopVars>>

\* a released permit goes to the task that has waited longest
GateAdmit(p) ==
    /\ pc = "sweep"
    /\ ~cancel_requested
    /\ tasks[p].pc = "gate"
    /\ sem_waiters # <<>>
    /\ Head(sem_waiters) = p
    /\ sem_value > 0
    /\ sem_value' = sem_value - 1
    /\ sem_waiters' = Tail(sem_waiters)
    /\ tasks' = [tasks EXCEPT ![p].pc = "inside"]
    /\ UNCHANGED <<readVars, configVars, sweepVars, hostVars, changed_hosts,
                   processorVars, active_processes, group_results, loopVars>>

\* inside the gate, after the sleep: async_ping is awaited, or the ping
\* subprocess is created (spawned) and proc.communicate awaited, or
\* create_subprocess_exec raises
ProbeStart(p, spawned) ==
    /\ pc = "sweep"
    /\ ~cancel_requested
    /\ tasks[p].pc = "inside"
    /\ IF use_icmplib
       THEN /\ spawned
            /\ tasks' = [tasks EXCEPT ![p].pc = "probing"]
            /\ UNCHANGED active_processes
       ELSE IF spawned
            THEN /\ tasks' = [tasks EXCEPT ![p].pc = "probing", ![p].proc = "running"]
                 /\ active_processes' = active_processes \cup {p}
            ELSE /\ tasks' = [tasks EXCEPT ![p].pc = "ended", ![p].event = "exception"]
                 /\ UNCHANGED active_processes
    /\ UNCHANGED <<readVars, configVars, sweepVars, hostVars, changed_hosts,
                   processorVars, gateVars, group_results, loopVars>>

\* what the task awaits ends: the subprocess exits with status 0 or not,
\* wait_for gives up after 0.6 s, or an exception is raised
ProbeEnds(p, event) ==
    /\ pc = "sweep"
    /\ ~cancel_requested
    /\ tasks[p].pc = "probing"
    /\ event = "timeout" => ~use_icmplib
    /\ tasks' = [tasks EXCEPT ![p].pc = "ended", ![p].event = event,
                              ![p].proc = IF @ = "running" /\ event \in {"alive", "dead"}
                                          THEN "exited" ELSE @]
    /\ UNCHANGED <<readVars, configVars, sweepVars, hostVars, changed_hosts,
                   processorVars, gateVars, active_processes, group_results,
                   loopVars>>

\* the task resumes: the finally of execute_ping, the permit is released,
\* execute_ping returns and ping_server records the result
TaskFinish(p) ==
    /\ pc = "sweep"
    /\ ~cancel_requested
    /\ tasks[p].pc = "ended"
    /\ LET fin == finally_terminate(tasks[p], active_processes, p)
           outcome == execute_ping(tasks[p].event)
           result == PingResult(Batches[batch_no][p], outcome.success,
                                outcome.response_time, clock)
       IN /\ active_processes' = fin.active
          /\ sem_value' = sem_value + 1
          /\ tasks' = [tasks EXCEPT ![p].pc = "done", ![p].event = "none",
                                    ![p].proc = fin.proc, ![p].result = result]
          /\ record_result(result)
    /\ pending' = pending \ {p}
    /\ UNCHANGED <<readVars, configVars, pc, clock, batch_no, sem_waiters,
                   group_results, loopVars>>

\* variant: gather returns with the first task that is done
gather_returned_on_first(ts) == \E p \in DOMAIN ts : ts[p].pc = "done"

\* `await asyncio.gather(*tasks)` returns once every task has returned
gather_returned(ts) == \A p \in DOMAIN ts : ts[p].pc = "done"

\* gather has returned the results of the batch in the order of its tasks;
\* after asyncio.sleep(0.001) the next batch is gathered, or the sweep is over
BatchEnd ==
    /\ pc = "sweep"
    /\ ~cancel_requested
    /\ gather_returned(tasks)
    /\ group_results' = [group_results EXCEPT ![BatchGroups[batch_no]] =
                             @ \o [p \in DOMAIN tasks |-> tasks[p].result]]
    /\ IF batch_no < Len(Batches)
       THEN /\ batch_no' = batch_no + 1
            /\ tasks' = ping_batch(Batches[batch_no + 1])
            /\ pending' = DOMAIN ping_batch(Batches[batch_no + 1])
            /\ UNCHANGED pc
       ELSE /\ pc' = "render"
            /\ tasks' = EmptyMap
            /\ UNCHANGED <<batch_no, pending>>
    /\ UNCHANGED <<readVars, configVars, clock, hostVars, changed_hosts,
                   processorVars, gateVars, active_processes, loopVars>>

\* the rest of the iteration: the frame is formatted and printed, the
\* memory optimizer counts, and the loop re-arms
Render ==
    /\ pc = "render"
    /\ ~cancel_requested
    /\ screen_update_counter' = IF screen_update_counter + 1 >= screen_clear_every
                                THEN 0 ELSE screen_update_counter + 1
    /\ frame' = [update_time |-> clock, results |-> group_results,
                 history |-> [h \in DOMAIN status_history |-> status_history[h].history]]
    /\ memory_optimizer' = [memory_optimizer EXCEPT !.iteration = @ + 1]
    /\ last_update_time' = current_time
    /\ pc' = "idle"
    /\ UNCHANGED <<readVars, configVars, clock, batch_no, pending, hostVars,
                   changed_hosts, processorVars, gateVars, taskVars, running,
                   current_time, cancel_requested, exit_status>>

\* the task of monitor_all_groups is cancelled while it is suspended
Cancel ==
    /\ pc \in {"idle", "sweep", "render"}
    /\ running
    /\ ~cancel_requested
    /\ cancel_requested' = TRUE
    /\ UNCHANGED <<readVars, configVars, sweepVars, hostVars, changed_hosts,
                   processorVars, gateVars, taskVars, running, last_update_time,
                   current_time, screen_update_counter, memory_optimizer, frame,
                   exit_status>>

\* gather passes the cancellation on: CancelledError is raised in the task
\* at position p where it is suspended. No handler of execute_ping catches
\* it; the finally and the exit of async with run on its way out.
TaskCancelled(p) ==
    /\ pc = "sweep"
    /\ cancel_requested
    /\ ~Terminal(tasks[p])
    /\ LET t == tasks[p]
           inside == t.pc \in {"inside", "probing", "ended"}
           fin == IF t.pc \in {"probing", "ended"}
                  THEN finally_terminate(t, active_processes, p)
                  ELSE [active |-> active_processes, proc |-> t.proc]
       IN /\ active_processes' = fin.active
          /\ sem_value' = IF inside THEN sem_value + 1 ELSE sem_value
          /\ sem_waiters' = IF t.pc = "gate" THEN Remove(sem_waiters, p)
                                             ELSE sem_waiters
          /\ tasks' = [tasks EXCEPT ![p].pc = "cancelled", ![p].event = "none",
                                    ![p].proc = fin.proc]
    /\ pending' = pending \ {p}
    /\ UNCHANGED <<readVars, configVars, pc, clock, batch_no, hostVars,
                   changed_hosts, processorVars, group_results, loopVars>>

\* variant: the caches are kept
cleanup_keeping_caches ==
    /\ memory_optimizer' = [memory_optimizer EXCEPT !.gc_enabled = TRUE]
    /\ tasks' = tasks
    /\ active_processes' = {}
    /\ UNCHANGED <<results_cache, status_history>>

\* PingMonitor.cleanup after memory_optimizer.cleanup: process_manager.cleanup
\* signals and forgets every subprocess of active_processes, then
\* results_cache and status_history are cleared
cleanup ==
    /\ memory_optimizer' = [memory_optimizer EXCEPT !.gc_enabled = TRUE]
    /\ tasks' = [p \in DOMAIN tasks |->
                    IF p \in active_processes
                    THEN [tasks[p] EXCEPT !.proc = terminate(@)] ELSE tasks[p]]
    /\ active_processes' = {}
    /\ results_cache' = EmptyMap
    /\ status_history' = EmptyMap

\* CancelledError reaches monitor_all_groups, at its sleep or once gather
\* has collected its cancelled tasks: running is cleared, the finally cleans
\* up and the coroutine returns
MonitorCancelled ==
    /\ pc \in {"idle", "sweep", "render"}
    /\ cancel_requested
    /\ \A p \in DOMAIN tasks : Terminal(tasks[p])
    /\ running' = FALSE
    /\ cleanup
    /\ pc' = "done"
    /\ UNCHANGED <<readVars, configVars, clock, batch_no, pending,
                   current_history_index, consecutive_failures,
                   consecutive_successes, changed_hosts, processorVars, gateVars,
                   group_results, last_update_time, current_time,
                   screen_update_counter, frame, cancel_requested, exit_status>>

\* main: run_until_complete has returned, the loop is closed, main returns
MainReturns ==
    /\ pc = "done"
    /\ pc' = "exited"
    /\ exit_status' = 0
    /\ UNCHANGED <<readVars, configVars, clock, batch_no, pending, hostVars,
                   changed_hosts, processorVars, gateVars, taskVars, running,
                   last_update_time, current_time, screen_update_counter,
                   memory_optimizer, frame, cancel_requested>>

\* KeyboardInterrupt is raised in the main thread. While the event loop
\* waits, it leaves run_until_complete: main prints, closes the loop and
\* returns, and the task of monitor_all_groups is never resumed. While the
\* code of monitor_all_groups itself runs (in_coroutine), it passes through
\* the finally of monitor_all_groups first.
KeyboardInterrupt(in_coroutine) ==
    /\ pc \in {"idle", "sweep", "render"}
    /\ ~cancel_requested
    /\ in_coroutine => pc \in {"idle", "render"}
    /\ IF in_coroutine
       THEN cleanup
       ELSE UNCHANGED <<memory_optimizer, tasks, active_processes, results_cache,
                        status_history>>
    /\ pc' = "exited"
    /\ exit_status' = 0
    /\ UNCHANGED <<readVars, configVars, clock, batch_no, pending,
                   current_history_index, consecutive_failures,
                   consecutive_successes, changed_hosts, processorVars, gateVars,
                   group_results, running, last_update_time, current_time,
                   screen_update_counter, frame, cancel_requested>>

----------------------------------------------------------------------------
(* Specifications *)

Thresholds == 1..MaxThreshold

\* get_monitor_settings has returned
PromptsAnswered ==
    /\ stdin = <<>>
    /\ stdin_pos = 0
    /\ prompt = "returned"
    /\ answers = NoAnswers

\* format_result_row has not been called
NothingFormatted ==
    /\ row_result = NoResult
    /\ row_history = InitialHostStatus.history
    /\ row = <<>>

\* ResultProcessor(cache_size=3000) has built its LRUCache
ProcessorCache ==
    /\ lru_capacity = cache_size
    /\ lru_calls = <<>>

\* what PingMonitor.__init__ builds for the file f, the module global
\* USE_ICMPLIB and a ProcessManager of n permits, at the start of read_groups
Constructed(f, icmplib, n) ==
    /\ file = f
    /\ line_no = 0
    /\ current_group = DefaultGroup
    /\ seen_ips = {}
    /\ groups = [g \in {DefaultGroup} |-> <<>>]
    /\ group_order = <<DefaultGroup>>
    /\ use_icmplib = icmplib
    /\ sem_capacity = n
    /\ sem_value = n
    /\ sem_waiters = <<>>
    /\ tasks = EmptyMap
    /\ active_processes = {}
    /\ group_results = EmptyMap
    /\ running = TRUE
    /\ last_update_time = 0
    /\ current_time = 0
    /\ screen_update_counter = 0
    /\ memory_optimizer = [iteration |-> 0, gc_enabled |-> FALSE]
    /\ frame = NoFrame
    /\ cancel_requested = FALSE
    /\ exit_status = StillRunning
    /\ network = EmptyMap
    /\ clock = 0
    /\ batch_no = 0
    /\ pending = {}
    /\ status_history = EmptyMap
    /\ current_history_index = EmptyMap
    /\ consecutive_failures = EmptyMap
    /\ consecutive_successes = EmptyMap
    /\ results_cache = EmptyMap
    /\ changed_hosts = {}
    /\ lru_cache = EmptyMap
    /\ lru_usage = <<>>
    /\ statistics = EmptyMap
    /\ rp_last_results = EmptyMap

\* the same state with the settings stg, as get_monitor_settings returned
\* them after three accepted lines of input
InitProgram(f, stg, icmplib, n) ==
    /\ Constructed(f, icmplib, n)
    /\ settings = stg
    /\ pc = "read"
    /\ PromptsAnswered
    /\ NothingFormatted
    /\ ProcessorCache

\* MonitorSettings(interval, failure_threshold, recovery_threshold)
MonitorSettings(interval, failure_threshold, recovery_threshold) ==
    [interval |-> interval, failure_threshold |-> failure_threshold,
     recovery_threshold |-> recovery_threshold, batch_size |-> batch_size]

\* the program as PingMonitor.__init__ builds it, with an interval of 1
InitWith(f, failure_threshold, recovery_threshold) ==
    InitProgram(f, MonitorSettings(1, failure_threshold, recovery_threshold),
                TRUE, max_concurrent)

\* the monitor of two hosts in one group
Init == \E f \in Thresholds, r \in Thresholds : InitWith(MonitorFile, f, r)

Next ==
    \/ ReadLine
    \/ SortGroups
    \/ StartSweep(MaxSweeps)
    \/ \E p \in pending, o \in ProbeOutcomes : PingServer(p, o)
    \/ BatchDone

Spec == Init /\ [][Next]_vars

\* the monitor of a single host, over more sweeps
InitRing == \E f \in Thresholds, r \in Thresholds : InitWith(RingFile, f, r)

NextRing ==
    \/ ReadLine
    \/ SortGroups
    \/ StartSweep(MaxRingSweeps)
    \/ \E p \in pending, o \in ProbeOutcomes : PingServer(p, o)
    \/ BatchDone

SpecRing == InitRing /\ [][NextRing]_vars

\* read_groups on every file of at most MaxLines lines
InitRead == \E f \in SeqsUpTo(ReadLines, MaxLines) : InitWith(f, 1, 1)

NextRead ==
    \/ ReadLine
    \/ SortGroups

SpecRead == InitRead /\ [][NextRead]_vars

\* the monitor loop with its tasks: two hosts in one batch, two hosts in two
\* groups, and one host listed twice
LoopFiles == {MonitorFile, TwoGroupsFile, DupFile}

\* the permits of the gate: a gate that two tasks fill, and a larger one
GateSizes == {1, MaxGate}

InitLoop ==
    \E f \in LoopFiles, i \in 1..MaxInterval, icmplib \in BOOLEAN, n \in GateSizes :
        InitProgram(f, MonitorSettings(i, 1, 1), icmplib, n)

NextLoop ==
    \/ ReadLine
    \/ SortGroups
    \/ Poll(MaxLoopTime)
    \/ SweepBegin
    \/ TimePasses(MaxLoopTime)
    \/ \E p \in DOMAIN tasks : TaskAcquire(p)
    \/ \E p \in DOMAIN tasks : GateAdmit(p)
    \/ \E p \in DOMAIN tasks, spawned \in BOOLEAN : ProbeStart(p, spawned)
    \/ \E p \in DOMAIN tasks, event \in ProbeEvents : ProbeEnds(p, event)
    \/ \E p \in DOMAIN tasks : TaskFinish(p)
    \/ BatchEnd
    \/ Render
    \/ Cancel
    \/ \E p \in DOMAIN tasks : TaskCancelled(p)
    \/ MonitorCancelled
    \/ MainReturns
    \/ \E in_coroutine \in BOOLEAN : KeyboardInterrupt(in_coroutine)

SpecLoop == InitLoop /\ [][NextLoop]_vars

\* the monitor loop of two hosts in one batch, with the fairness of the
\* event loop: a task that can run is run, what a task awaits ends (its
\* timeouts see to that), and the loop itself goes on when it can.
\* Cancellation and KeyboardInterrupt are not forced; time passes in the
\* polling sleeps only.
InitFair ==
    \E icmplib \in BOOLEAN, n \in GateSizes :
        InitProgram(MonitorFile, MonitorSettings(1, 1, 1), icmplib, n)

NextFair ==
    \/ ReadLine
    \/ SortGroups
    \/ Poll(MaxFairTime)
    \/ SweepBegin
    \/ \E p \in DOMAIN tasks : TaskAcquire(p)
    \/ \E p \in DOMAIN tasks : GateAdmit(p)
    \/ \E p \in DOMAIN tasks, spawned \in BOOLEAN : ProbeStart(p, spawned)
    \/ \E p \in DOMAIN tasks, event \in ProbeEvents : ProbeEnds(p, event)
    \/ \E p \in DOMAIN tasks : TaskFinish(p)
    \/ BatchEnd
    \/ Render
    \/ Cancel
    \/ \E p \in DOMAIN tasks : TaskCancelled(p)
    \/ MonitorCancelled
    \/ MainReturns
    \/ \E in_coroutine \in BOOLEAN : KeyboardInterrupt(in_coroutine)

\* the positions of the batch of MonitorFile: one task for each of its hosts
TaskPositions == 1..Cardinality({H1, H2})

\* a step of the task at position p
TaskStep(p) ==
    /\ p \in DOMAIN tasks
    /\ \/ TaskAcquire(p)
       \/ GateAdmit(p)
       \/ \E spawned \in BOOLEAN : ProbeStart(p, spawned)
       \/ \E event \in ProbeEvents : ProbeEnds(p, event)
       \/ TaskFinish(p)
       \/ TaskCancelled(p)

\* a step of main and monitor_all_groups that waits for nothing but its tasks
LoopStep ==
    \/ ReadLine
    \/ SortGroups
    \/ SweepBegin
    \/ BatchEnd
    \/ Render
    \/ MonitorCancelled
    \/ MainReturns

SpecFair ==
    /\ InitFair
    /\ [][NextFair]_vars
    /\ WF_vars(LoopStep)
    /\ \A p \in TaskPositions : WF_vars(TaskStep(p))

----------------------------------------------------------------------------
(* Vocabulary of the properties *)

Hosts == DOMAIN status_history
Slots == 0..(history_count - 1)

LastStatus(h) == status_history[h].last_status
History(h) == status_history[h].history

IsOpen(slot) == slot.down # NoTime /\ slot.up = NoTime
IsClosed(slot) == slot.down # NoTime /\ slot.up # NoTime

\* the step processes a result for h: update_host_status appends it to results_cache[h]
Processed(h) == results_cache'[h] # results_cache[h]
ProcessedResult(h) == results_cache'[h][Len(results_cache'[h])]
FailureStep(h) == Processed(h) /\ ~ProcessedResult(h).success
SuccessStep(h) == Processed(h) /\ ProcessedResult(h).success

\* the step writes an entry (down = timestamp, up = None) into the history of h
DownWritten(h) ==
    \E i \in Slots :
        /\ status_history'[h].history[i] # History(h)[i]
        /\ IsOpen(status_history'[h].history[i])

\* the length of the longest suffix of rs whose results all have success = s
RunLength(rs, s) ==
    CHOOSE k \in 0..Len(rs) :
        /\ \A j \in (Len(rs) - k + 1)..Len(rs) : rs[j].success = s
        /\ k < Len(rs) => rs[Len(rs) - k].success # s

\* the timestamps of the current run of results with success = s, oldest first
RunTimes(h, s) ==
    LET rs == results_cache[h]
        k == RunLength(rs, s)
    IN [j \in 1..k |-> rs[Len(rs) - k + j].timestamp]

----------------------------------------------------------------------------
(* C1: for every host, at most one of consecutive_failures and             *)
(* consecutive_successes is non-zero, in every reachable state.            *)
C1_CountersExclusive ==
    \A h \in Hosts :
        /\ consecutive_failures[h] > 0 => consecutive_successes[h] = 0
        /\ consecutive_successes[h] > 0 => consecutive_failures[h] = 0

\* a host that has succeeded before is in a failure streak
C1_Witness ==
    \E h \in Hosts :
        /\ consecutive_failures[h] > 0
        /\ \E j \in 1..Len(results_cache[h]) : results_cache[h][j].success

(* C2: a processed result writes a Down entry into the history of its host *)
(* if and only if it is a failure that brings consecutive_failures to      *)
(* failure_threshold while last_status was not Down before it; the counter *)
(* then equals the threshold exactly.                                      *)
C2_DownWrittenIff ==
    [][\A h \in Hosts :
          /\ DownWritten(h) <=>
                 /\ FailureStep(h)
                 /\ consecutive_failures'[h] = settings.failure_threshold
                 /\ LastStatus(h) # StatusDown
          /\ DownWritten(h) =>
                 consecutive_failures'[h] = settings.failure_threshold]_vars

\* a host has just gone Down a second time, its counter at the threshold
C2_Witness ==
    \E h \in Hosts :
        /\ LastStatus(h) = StatusDown
        /\ consecutive_failures[h] = settings.failure_threshold
        /\ current_history_index[h] = 1
        /\ IsOpen(History(h)[1])

(* C3: every step that takes a host from Down to Up sets the up time of    *)
(* exactly one slot, the open slot at current_history_index, changes no    *)
(* other slot, and moves the index from i to (i + 1) mod history_count.    *)
C3_UpClosesOneSlot ==
    [][\A h \in Hosts :
          (LastStatus(h) = StatusDown /\ status_history'[h].last_status = StatusUp) =>
              LET i == current_history_index[h] IN
              /\ IsOpen(History(h)[i])
              /\ \A j \in Slots \ {i} : ~IsOpen(History(h)[j])
              /\ status_history'[h].history =
                     [History(h) EXCEPT ![i].up = ProcessedResult(h).timestamp]
              /\ ProcessedResult(h).timestamp # NoTime
              /\ current_history_index'[h] = (i + 1) % history_count]_vars

\* a host has recovered for the third time: the last slot is closed and the
\* index has wrapped around to 0
C3_Witness ==
    \E h \in Hosts :
        /\ LastStatus(h) = StatusUp
        /\ IsClosed(History(h)[history_count - 1])
        /\ current_history_index[h] = 0

\* the timestamps written into the history of h
DownTimes(h) == {History(h)[i].down : i \in Slots} \ {NoTime}
UpTimes(h) == {History(h)[i].up : i \in Slots} \ {NoTime}

\* h was Down at time t: a slot opened before t was not closed before t
DownBefore(h, t) ==
    \E i \in Slots :
        LET slot == History(h)[i] IN
        /\ slot.down # NoTime
        /\ slot.down < t
        /\ slot.up = NoTime \/ slot.up >= t

(* C4: when a run of consecutive failures starts on a host that is not     *)
(* Down, the history gets exactly one Down entry from the run, written at  *)
(* the F-th failure (F = failure_threshold), none earlier; the failures    *)
(* after the F-th write nothing, so that entry stays as it was written.    *)
C4_OneDownPerFailureRun ==
    \A h \in Hosts :
        LET run == RunTimes(h, FALSE)
            k == Len(run)
            F == settings.failure_threshold
        IN (k >= 1 /\ ~DownBefore(h, run[1])) =>
               /\ \A j \in 1..k : (run[j] \in DownTimes(h)) <=> (j = F)
               /\ \A j \in 1..k : run[j] \notin UpTimes(h)
               /\ Cardinality({i \in Slots : \E j \in 1..k : History(h)[i].down = run[j]})
                      = IF k >= F THEN 1 ELSE 0
               /\ k < F => LastStatus(h) # StatusDown
               /\ k >= F =>
                      /\ LastStatus(h) = StatusDown
                      /\ History(h)[current_history_index[h]] =
                             [down |-> run[F], up |-> NoTime]

\* a run that began on a host that was not Down has gone past the threshold
C4_Witness ==
    \E h \in Hosts :
        LET run == RunTimes(h, FALSE) IN
        /\ Len(run) > settings.failure_threshold
        /\ ~DownBefore(h, run[1])
        /\ LastStatus(h) = StatusDown

(* C5: when a run of consecutive successes starts on a host that is Down   *)
(* (one open slot), fewer than R successes (R = recovery_threshold) leave  *)
(* the host Down and the slot open; the R-th success writes the up time of *)
(* that slot, and no other success of the run writes anything. The first   *)
(* success already resets consecutive_failures: the counter always equals  *)
(* the length of the current run of failures, so a failure after a success *)
(* counts from 1.                                                          *)
C5_OneUpPerSuccessRun ==
    \A h \in Hosts :
        LET run == RunTimes(h, TRUE)
            k == Len(run)
            R == settings.recovery_threshold
        IN /\ consecutive_failures[h] = Len(RunTimes(h, FALSE))
           /\ (k >= 1 /\ DownBefore(h, run[1])) =>
                  /\ consecutive_failures[h] = 0
                  /\ \A j \in 1..k : run[j] \notin DownTimes(h)
                  /\ \A j \in 1..k : (run[j] \in UpTimes(h)) <=> (j = R)
                  /\ Cardinality({i \in Slots : \E j \in 1..k : History(h)[i].up = run[j]})
                         = IF k >= R THEN 1 ELSE 0
                  /\ k < R =>
                         /\ LastStatus(h) = StatusDown
                         /\ IsOpen(History(h)[current_history_index[h]])
                  /\ k >= R =>
                         /\ LastStatus(h) = StatusUp
                         /\ \E i \in Slots :
                                /\ History(h)[i].up = run[R]
                                /\ History(h)[i].down < run[1]
                                /\ current_history_index[h] = (i + 1) % history_count

\* a Down host has recovered at the second success of a run, not at the first
C5_Witness ==
    \E h \in Hosts :
        LET run == RunTimes(h, TRUE) IN
        /\ settings.recovery_threshold = 2
        /\ Len(run) >= 2
        /\ DownBefore(h, run[1])
        /\ run[2] \in UpTimes(h)

\* the (down, up) pairs of the completed down-then-up cycles that the results
\* rs amount to, oldest first: a cycle starts at the failure that completes
\* failure_threshold consecutive failures of a host that is not Down, and ends
\* at the success that completes recovery_threshold consecutive successes
RECURSIVE CyclesFrom(_, _, _, _, _, _)
CyclesFrom(rs, down, failures, successes, opened, acc) ==
    IF rs = <<>> THEN acc
    ELSE LET r == Head(rs) IN
         IF ~r.success
         THEN IF ~down /\ failures + 1 >= settings.failure_threshold
              THEN CyclesFrom(Tail(rs), TRUE, failures + 1, 0, r.timestamp, acc)
              ELSE CyclesFrom(Tail(rs), down, failures + 1, 0, opened, acc)
         ELSE IF down /\ successes + 1 >= settings.recovery_threshold
              THEN CyclesFrom(Tail(rs), FALSE, 0, successes + 1, NoTime,
                              Append(acc, [down |-> opened, up |-> r.timestamp]))
              ELSE CyclesFrom(Tail(rs), down, 0, successes + 1, opened, acc)

Cycles(h) == CyclesFrom(results_cache[h], FALSE, 0, 0, NoTime, <<>>)

(* C6: with a ring of history_count = N slots, when a host has completed   *)
(* N + 1 down-then-up cycles, the pair of the 1st cycle is in no slot, the *)
(* slot it occupied (slot 0) holds the pair of cycle N + 1, and the pairs  *)
(* of cycles 2..N+1 are each in their own slot; up to N cycles nothing is  *)
(* lost.                                                                   *)
C6_RingOverwritesOldest ==
    \A h \in Hosts :
        LET cyc == Cycles(h)
            N == history_count
        IN LastStatus(h) # StatusDown =>
               /\ Len(cyc) <= N =>
                      \A j \in 1..Len(cyc) : History(h)[j - 1] = cyc[j]
               /\ Len(cyc) = N + 1 =>
                      /\ \A i \in Slots : History(h)[i] # cyc[1]
                      /\ History(h)[0] = cyc[N + 1]
                      /\ \A j \in 2..(N + 1) : History(h)[(j - 1) % N] = cyc[j]

\* a host has completed N + 1 cycles
C6_Witness ==
    \E h \in Hosts :
        /\ Len(Cycles(h)) = history_count + 1
        /\ LastStatus(h) # StatusDown

(* C7: no step overwrites an open slot: the only change a step makes to an *)
(* open slot is to set its up time; a Down entry is written only into an   *)
(* empty or closed slot; and current_history_index changes only in the     *)
(* step that closes the slot it points to.                                 *)
C7_OpenSlotNeverOverwritten ==
    [][\A h \in Hosts :
          LET old == History(h)
              new == status_history'[h].history
              i == current_history_index[h]
          IN /\ \A j \in Slots :
                    (IsOpen(old[j]) /\ new[j] # old[j]) =>
                        /\ j = i
                        /\ new[j].down = old[j].down
                        /\ new[j].up # NoTime
             /\ \A j \in Slots :
                    (new[j] # old[j] /\ IsOpen(new[j])) =>
                        (old[j] = EmptySlot \/ IsClosed(old[j]))
             /\ current_history_index'[h] # i =>
                    /\ IsOpen(old[i])
                    /\ IsClosed(new[i])
                    /\ new[i].down = old[i].down]_vars

\* the ring has wrapped: a Down entry has replaced the closed pair of slot 0
C7_Witness ==
    \E h \in Hosts :
        /\ IsOpen(History(h)[0])
        /\ IsClosed(History(h)[1])
        /\ History(h)[1].down < History(h)[0].down

(* C8: a host that has only ever failed, and so was never Up, is Down as   *)
(* soon as its failures reach failure_threshold, with the slot at index 0  *)
(* opened at that failure.                                                 *)
C8_UnknownGoesDown ==
    \A h \in Hosts :
        LET rs == results_cache[h]
            F == settings.failure_threshold
        IN (Len(rs) >= F /\ \A j \in 1..Len(rs) : ~rs[j].success) =>
               /\ LastStatus(h) = StatusDown
               /\ current_history_index[h] = 0
               /\ History(h)[0] = [down |-> rs[F].timestamp, up |-> NoTime]

\* a host went Down on its second probe without ever having been Up
C8_Witness ==
    \E h \in Hosts :
        /\ settings.failure_threshold = 2
        /\ Len(results_cache[h]) = 2
        /\ \A j \in 1..2 : ~results_cache[h][j].success
        /\ LastStatus(h) = StatusDown

(* C9, as claimed: once a sweep that processed a result of a host is over, *)
(* last_status of the host is Up or Down.                                  *)
C9_KnownAfterFirstSweep ==
    \A h \in Hosts :
        (pc = "idle" /\ Len(results_cache[h]) >= 1) => LastStatus(h) # StatusNone

(* C9, amended: last_status of a host is Unknown exactly as long as the    *)
(* host has had no successful probe and fewer than failure_threshold       *)
(* failed probes.                                                          *)
C9_UnknownUntilCommitted ==
    \A h \in Hosts :
        LET stats == StatisticsOf(statistics, h) IN
        LastStatus(h) = StatusNone <=>
            (stats.success = 0 /\ stats.total < settings.failure_threshold)

\* a sweep is over and the host it probed is still Unknown
C9_Witness ==
    \E h \in Hosts :
        /\ pc = "idle"
        /\ StatisticsOf(statistics, h).total >= 1
        /\ LastStatus(h) = StatusNone

----------------------------------------------------------------------------
(* read_groups *)

\* the hosts listed in the file
FileHosts == {file[i].ip : i \in {j \in 1..Len(file) : file[j].kind = "host"}}

\* the group in effect at line i of the file
GroupAt(i) ==
    LET headers == {j \in 1..(i - 1) : file[j].kind = "group"}
    IN IF headers = {} THEN DefaultGroup
       ELSE file[CHOOSE j \in headers : \A k \in headers : k <= j].name

\* the group in effect where ip is listed first
FirstGroup(ip) ==
    GroupAt(CHOOSE i \in 1..Len(file) :
                /\ file[i] = HostLine(ip)
                /\ \A j \in 1..(i - 1) : file[j] # HostLine(ip))

\* the entries of ip in the lists of all groups
Entries(ip) ==
    UNION {{<<g, i>> : i \in {j \in 1..Len(groups[g]) : groups[g][j] = ip}} :
           g \in DOMAIN groups}

(* C10: after read_groups, every host of the input has exactly one entry   *)
(* in the group lists taken together, in the group of its first            *)
(* occurrence.                                                             *)
C10_HostListedOnce ==
    pc = "idle" =>
        \A ip \in FileHosts :
            /\ Cardinality(Entries(ip)) = 1
            /\ \E i \in 1..Len(groups[FirstGroup(ip)]) : groups[FirstGroup(ip)][i] = ip

----------------------------------------------------------------------------
(* Vocabulary of the properties of the monitor loop *)

\* the number of sweeps that have been rendered
SweepsDone == memory_optimizer.iteration

\* the tasks of the gathered batch that hold a permit of the gate
Inside == {p \in DOMAIN tasks : tasks[p].pc \in {"inside", "probing", "ended"}}

\* the tasks of the gathered batch that wait at the gate
Waiting == {p \in DOMAIN tasks : tasks[p].pc = "gate"}

(* C11: once a sweep is over, every monitored host has been probed exactly *)
(* once in each sweep so far: its statistics and its results_cache count   *)
(* one result per sweep, whatever the input list.                          *)
C11_OncePerSweep ==
    pc = "idle" =>
        \A h \in Hosts :
            /\ StatisticsOf(statistics, h).total = SweepsDone
            /\ Len(results_cache[h]) = SweepsDone

\* the tasks queued in the semaphore
Queued == {sem_waiters[i] : i \in DOMAIN sem_waiters}

\* the permits are accounted for: those not free are held by the tasks inside
GateAccounted ==
    /\ sem_value >= 0
    /\ Cardinality(Inside) <= sem_capacity
    /\ sem_value = sem_capacity - Cardinality(Inside)
    /\ Queued = Waiting

\* a task that reaches the gate enters it, or queues when no permit is free
ArrivalWaits ==
    \A p \in DOMAIN tasks :
        (tasks[p].pc = "jitter" /\ p \in DOMAIN tasks'
             /\ tasks'[p].pc \notin {"jitter", "cancelled"})
        => IF sem_value = 0 THEN tasks'[p].pc = "gate"
                            ELSE tasks'[p].pc \in {"inside", "gate"}

(* C12: the probes inside the admission gate never outnumber its permits;  *)
(* a probe that arrives when the gate is full waits at it; every way out   *)
(* of the gate gives the permit back, and every waiting probe is admitted  *)
(* in the end (unless the monitor is cancelled or the process interrupted  *)
(* first).                                                                 *)
C12_GateBoundedAndFair ==
    /\ []GateAccounted
    /\ [][ArrivalWaits]_vars
    /\ \A p \in TaskPositions :
           (p \in Waiting) ~> (p \in Inside \/ cancel_requested \/ pc = "exited")

C12_Witness ==
    /\ Waiting # {}
    /\ Cardinality(Inside) = sem_capacity
    /\ \E p \in Inside : tasks[p].pc = "probing"

\* the number of hosts in the first n batches of the sweep
RECURSIVE HostsInBatches(_)
HostsInBatches(n) ==
    IF n = 0 THEN 0 ELSE HostsInBatches(n - 1) + Len(Batches[n])

\* the number of results ping_all_groups has collected, over the groups in order
RECURSIVE CollectedFrom(_)
CollectedFrom(order) ==
    IF order = <<>> THEN 0
    ELSE Len(group_results[Head(order)]) + CollectedFrom(Tail(order))

Collected == CollectedFrom(group_order)

(* C13 as stated: within a sweep no probe is still to be dispatched once a *)
(* result of the sweep has come in, over all batches and groups.           *)
C13_FanOutPerSweep ==
    (pc = "sweep" /\ \E p \in DOMAIN tasks : tasks[p].pc = "done")
    => batch_no = Len(Batches)

(* C13, amended: the fan-out is per batch. All probes of a batch are       *)
(* dispatched together, before any of them is awaited; a batch is          *)
(* dispatched only when every result of the batches before it has been     *)
(* collected.                                                              *)
C13_FanOutPerBatch ==
    pc = "sweep" =>
        /\ batch_no \in 1..Len(Batches)
        /\ DOMAIN tasks = 1..Len(Batches[batch_no])
        /\ Collected = HostsInBatches(batch_no - 1)

C13_Witness ==
    /\ pc = "sweep"
    /\ Len(Batches[batch_no]) = 2
    /\ \A p \in DOMAIN tasks : tasks[p].pc = "probing"

(* C14: a sweep never starts less than the interval after the time at      *)
(* which the sweep before it and its render were finished (the time the    *)
(* last frame shows).                                                      *)
C14_RearmsFromCompletion ==
    (pc = "sweep" /\ frame # NoFrame)
    => current_time >= frame.update_time + settings.interval

\* monitor_all_groups has returned after a cancellation
CancelledAndOver == cancel_requested /\ pc \in {"done", "exited"}

\* what the cancelled monitor leaves behind
CancelledClean ==
    CancelledAndOver =>
        /\ ~running
        /\ active_processes = {}
        /\ results_cache = EmptyMap
        /\ status_history = EmptyMap
        /\ \A p \in DOMAIN tasks :
               Terminal(tasks[p]) /\ tasks[p].proc \in {"none", "killed", "gone"}

\* once cancelled, no task is created and no task moves on but to its end
NoDispatchAfterCancel ==
    cancel_requested =>
        \A p \in DOMAIN tasks' :
            /\ p \in DOMAIN tasks
            /\ tasks'[p].pc \in {tasks[p].pc, "cancelled"}

(* C15: after the task of monitor_all_groups has been cancelled, at its    *)
(* sleep, in a sweep or before the render, no probe is dispatched any      *)
(* more, and the loop ends: then running is false, every task of the       *)
(* batch is over, no subprocess is left running or in active_processes,    *)
(* and results_cache and status_history are empty.                         *)
C15_CancelStopsAndCleans ==
    /\ []CancelledClean
    /\ [][NoDispatchAfterCancel]_vars
    /\ cancel_requested ~> CancelledAndOver

C15_Witness ==
    /\ CancelledAndOver
    /\ \E p \in DOMAIN tasks : tasks[p].pc = "cancelled" /\ tasks[p].proc = "killed"
    /\ \E h \in DOMAIN statistics : statistics[h].total > 0

\* main has ended after a KeyboardInterrupt (the task was not cancelled)
Interrupted == pc = "exited" /\ ~cancel_requested

(* C16: when main has ended after a KeyboardInterrupt, the monitor's       *)
(* cleanup has run (no subprocess in flight or in active_processes,        *)
(* results_cache and status_history empty) and the exit status is 0.       *)
C16_InterruptCleansUp ==
    Interrupted =>
        /\ exit_status = 0
        /\ active_processes = {}
        /\ \A p \in DOMAIN tasks : tasks[p].proc # "running"
        /\ results_cache = EmptyMap
        /\ status_history = EmptyMap

Returns(p) ==
    /\ p \in DOMAIN tasks
    /\ tasks[p].pc = "ended"
    /\ p \in DOMAIN tasks'
    /\ tasks'[p].pc = "done"

(* C18: a probe that ends without an answer, by a timeout or by an         *)
(* exception comes back from execute_ping as (False, 0): ping_server       *)
(* records a result with success False and response_time 0, and the        *)
(* debounce counters take it as a failure (one more consecutive failure,   *)
(* no consecutive success). A probe that is answered is recorded as a      *)
(* success with a latency that is not negative.                            *)
C18_FailuresAreResults ==
    [][\A p \in DOMAIN tasks :
           Returns(p) =>
               LET result == tasks'[p].result
                   h == result.host
               IN /\ result = ProcessedResult(h)
                  /\ result.success = (tasks[p].event = "alive")
                  /\ result.response_time >= 0
                  /\ ~result.success =>
                         /\ result.response_time = 0
                         /\ consecutive_failures'[h] = consecutive_failures[h] + 1
                         /\ consecutive_successes'[h] = 0
                         /\ StatisticsOf(statistics', h).last_status = StatusDown]_vars

C18_Witness ==
    \E p, q \in DOMAIN tasks :
        /\ tasks[p].pc = "done" /\ tasks[p].proc = "killed"
        /\ ~tasks[p].result.success
        /\ tasks[q].pc = "done" /\ tasks[q].result.success

----------------------------------------------------------------------------
(* Properties of the ResultProcessor *)

\* the results of h that update_host_status has taken, and the successes
\* among them (results_cache keeps them all while they are fewer than
\* max_history_entries)
ResultsOf(h) == IF h \in DOMAIN results_cache THEN results_cache[h] ELSE <<>>
SuccessesOf(h) == Cardinality({i \in DOMAIN ResultsOf(h) : ResultsOf(h)[i].success})

\* the fraction rate equals the number n
RateIs(rate, n) == rate.den > 0 /\ rate.num = n * rate.den

\* get_host_stats of h gives the share of the successes among all results of h
StatsAreExact(h) ==
    LET st == StatisticsOf(statistics, h)
        got == get_host_stats(statistics, h)
    IN /\ 0 <= st.success /\ st.success <= st.total
       /\ st.total = Len(ResultsOf(h))
       /\ st.success = SuccessesOf(h)
       /\ got.success_rate.den > 0
       /\ got.success_rate.num * Len(ResultsOf(h))
              = SuccessesOf(h) * 100 * got.success_rate.den
       /\ st.total = 0 => RateIs(got.success_rate, 0) /\ got.last_status = StatusNone
       /\ (st.total = 10 /\ st.success = 7) => RateIs(got.success_rate, 70)

AllStatsExact == \A h \in Hosts : StatsAreExact(h)

\* the counters of h do not go down
CountersGrow(h) ==
    /\ StatisticsOf(statistics', h).total >= StatisticsOf(statistics, h).total
    /\ StatisticsOf(statistics', h).success >= StatisticsOf(statistics, h).success

(* C19: for every host, get_host_stats gives success / total * 100 over    *)
(* all results processed for the host (70 for 7 successes of 10), and 0    *)
(* with last_status None when there is none; the counters never go down    *)
(* and 0 <= success <= total.                                              *)
C19_SuccessRate ==
    /\ []AllStatsExact
    /\ [][\A h \in Hosts : CountersGrow(h)]_vars

C19_Witness ==
    \E h \in Hosts :
        /\ StatisticsOf(statistics, h).total = 10
        /\ StatisticsOf(statistics, h).success = 7
        /\ RateIs(get_host_stats(statistics, h).success_rate, 70)

\* monitor_all_groups is running: its caches have not been cleared
MonitorRuns == pc \in {"idle", "sweep", "render"}

\* the newest result update_host_status has taken for h
NewestResult(h) == results_cache[h][Len(results_cache[h])]

(* C20: while the monitor runs, in every state in which a task or the      *)
(* renderer can run, every host that has been probed has a newest entry    *)
(* in results_cache, and the last_status the ResultProcessor holds for it   *)
(* is the success flag of that entry.                                      *)
C20_LastOutcomeAgrees ==
    MonitorRuns =>
        /\ \A h \in DOMAIN statistics :
               /\ h \in DOMAIN results_cache
               /\ results_cache[h] # <<>>
               /\ statistics[h].last_status = BoolStatus(NewestResult(h).success)
        /\ \A h \in DOMAIN results_cache :
               results_cache[h] # <<>> => h \in DOMAIN statistics

C20_Witness ==
    /\ pc = "sweep"
    /\ \E p, q \in DOMAIN tasks : tasks[p].pc = "done" /\ tasks[q].pc = "probing"
    /\ \E h \in DOMAIN statistics :
           /\ Len(results_cache[h]) >= 2
           /\ NewestResult(h).success
           /\ ~results_cache[h][Len(results_cache[h]) - 1].success
           /\ statistics[h].last_status = StatusUp
    /\ \E h \in DOMAIN statistics : statistics[h].last_status = StatusDown

----------------------------------------------------------------------------
(* get_monitor_settings. A text is the sequence of the code points of its  *)
(* characters; input() returns the next line of standard input without its *)
(* newline, and raises EOFError when there is none.                        *)

Digits == 48..57
Whitespace == {9, 32}
Signs == {43, 45}
MinusSign == <<45>>

\* str.strip() on the left and on the right
RECURSIVE lstrip(_)
lstrip(s) == IF s # <<>> /\ Head(s) \in Whitespace THEN lstrip(Tail(s)) ELSE s

RECURSIVE rstrip(_)
rstrip(s) ==
    IF s # <<>> /\ s[Len(s)] \in Whitespace THEN rstrip(SubSeq(s, 1, Len(s) - 1)) ELSE s

\* the number that a sequence of decimal digits denotes, acc being the
\* value of the digits already read
RECURSIVE DecimalValue(_, _)
DecimalValue(digits, acc) ==
    IF digits = <<>> THEN acc
    ELSE DecimalValue(Tail(digits), 10 * acc + (Head(digits) - 48))

ValueError == [raised |-> TRUE, value |-> 0]

\* int(text) for texts of digits, signs, blanks and other characters:
\* blanks around the number are dropped, one sign may lead, at least one
\* digit must follow and nothing else may
int(text) ==
    LET stripped == rstrip(lstrip(text))
        signed == stripped # <<>> /\ Head(stripped) \in Signs
        body == IF signed THEN Tail(stripped) ELSE stripped
        magnitude == DecimalValue(body, 0)
    IN IF body = <<>> \/ \E i \in 1..Len(body) : body[i] \notin Digits
       THEN ValueError
       ELSE [raised |-> FALSE,
             value |-> IF signed /\ <<Head(stripped)>> = MinusSign
                       THEN 0 - magnitude ELSE magnitude]

\* the ranges of the three prompts
IntervalRange == [lo |-> 1, hi |-> 60]
ThresholdRange == [lo |-> 1, hi |-> 10]
RangeOf(asked) == IF asked = "interval" THEN IntervalRange ELSE ThresholdRange

\* variant: a value out of range is replaced by the nearest bound
checked_clamping(value, lo, hi) ==
    [accepted |-> TRUE,
     value |-> IF value < lo THEN lo ELSE IF value > hi THEN hi ELSE value]

\* `if not lo <= value <= hi: ... continue`
checked(value, lo, hi) == [accepted |-> lo <= value /\ value <= hi, value |-> value]

\* MonitorSettings has not been constructed
NoSettings ==
    [interval |-> 0, failure_threshold |-> 0, recovery_threshold |-> 0,
     batch_size |-> batch_size]

\* what the monitor object holds
programVars == <<readVars, clock, batch_no, pending, hostVars, changed_hosts,
                 processorVars, use_icmplib, sem_capacity, gateVars, taskVars,
                 running, last_update_time, current_time, screen_update_counter,
                 memory_optimizer, frame, cancel_requested, tableVars, cacheVars,
                 network>>

\* one line of input is read and judged: ValueError and a value out of range
\* both lead back to the first prompt; the third accepted value makes
\* get_monitor_settings return, and main constructs the monitor
Enter ==
    /\ pc = "settings"
    /\ stdin_pos < Len(stdin)
    /\ stdin_pos' = stdin_pos + 1
    /\ LET parsed == int(stdin[stdin_pos + 1])
           entry == checked(parsed.value, RangeOf(prompt).lo, RangeOf(prompt).hi)
       IN IF parsed.raised \/ ~entry.accepted
          THEN /\ prompt' = "interval"
               /\ UNCHANGED <<answers, settings, pc>>
          ELSE CASE prompt = "interval" ->
                      /\ prompt' = "failure_threshold"
                      /\ answers' = [answers EXCEPT !.interval = entry.value]
                      /\ UNCHANGED <<settings, pc>>
                 [] prompt = "failure_threshold" ->
                      /\ prompt' = "recovery_threshold"
                      /\ answers' = [answers EXCEPT !.failure_threshold = entry.value]
                      /\ UNCHANGED <<settings, pc>>
                 [] prompt = "recovery_threshold" ->
                      /\ prompt' = "returned"
                      /\ settings' = MonitorSettings(answers.interval,
                                                     answers.failure_threshold,
                                                     entry.value)
                      /\ pc' = "read"
                      /\ UNCHANGED answers
    /\ UNCHANGED <<programVars, exit_status, stdin>>

\* input() at the end of standard input raises EOFError, which only main
\* catches: `except Exception` prints it and calls sys.exit(1)
EndOfInput ==
    /\ pc = "settings"
    /\ stdin_pos = Len(stdin)
    /\ pc' = "exited"
    /\ exit_status' = 1
    /\ UNCHANGED <<programVars, settings, promptVars>>

\* the lines typed at the prompts
TextZero == <<48>>
TextOne == <<49>>
TextTen == <<49, 48>>
TextEleven == <<49, 49>>
TextSixty == <<54, 48>>
TextSixtyOne == <<54, 49>>
TextFiveInBlanks == <<32, 53, 32>>
TextLetter == <<120>>
TextMinusThree == <<45, 51>>

InputTexts == {TextZero, TextOne, TextTen, TextEleven, TextSixty, TextSixtyOne,
               TextFiveInBlanks, TextLetter, TextMinusThree}

\* main before get_monitor_settings, for every standard input of at most
\* MaxEntries lines
InitSettings ==
    \E s \in SeqsUpTo(InputTexts, MaxEntries) :
        /\ Constructed(RingFile, TRUE, max_concurrent)
        /\ settings = NoSettings
        /\ pc = "settings"
        /\ stdin = s
        /\ stdin_pos = 0
        /\ prompt = "interval"
        /\ answers = NoAnswers
        /\ NothingFormatted
        /\ ProcessorCache

NextSettings ==
    \/ Enter
    \/ EndOfInput

SpecSettings == InitSettings /\ [][NextSettings]_vars

----------------------------------------------------------------------------
(* C21 *)

\* the typed lines that are numbers, and the number each stands for
NumberTexts == InputTexts \ {TextLetter}

NumberTyped(text) ==
    CASE text = TextZero -> 0
      [] text = TextOne -> 1
      [] text = TextTen -> 10
      [] text = TextEleven -> 11
      [] text = TextSixty -> 60
      [] text = TextSixtyOne -> 61
      [] text = TextFiveInBlanks -> 5
      [] text = TextMinusThree -> 0 - 3

\* the line answers the prompt: it is a number within the range asked for
Answers(text, asked) ==
    /\ text \in NumberTexts
    /\ IF asked = "interval" THEN NumberTyped(text) \in 1..60
                             ELSE NumberTyped(text) \in 1..10

HasReturned == prompt = "returned"

\* the returned settings are within the ranges and are the numbers of the
\* last three lines read
ReturnsWhatWasEntered ==
    HasReturned =>
        /\ stdin_pos >= 3
        /\ settings.interval \in 1..60
        /\ settings.failure_threshold \in 1..10
        /\ settings.recovery_threshold \in 1..10
        /\ Answers(stdin[stdin_pos - 2], "interval")
        /\ Answers(stdin[stdin_pos - 1], "failure_threshold")
        /\ Answers(stdin[stdin_pos], "recovery_threshold")
        /\ settings.interval = NumberTyped(stdin[stdin_pos - 2])
        /\ settings.failure_threshold = NumberTyped(stdin[stdin_pos - 1])
        /\ settings.recovery_threshold = NumberTyped(stdin[stdin_pos])

\* a line that does not answer the prompt sends get_monitor_settings back
\* to the first prompt, with nothing returned
RejectedStartsAgain ==
    (stdin_pos' = stdin_pos + 1 /\ ~Answers(stdin[stdin_pos + 1], prompt)) =>
        /\ prompt' = "interval"
        /\ pc' = "settings"
        /\ settings' = NoSettings

\* C21: get_monitor_settings returns only settings with interval in 1..60 and
\* both thresholds in 1..10, the returned values are the values entered in
\* the accepted round, and a line that is no number or out of range is
\* rejected and the prompting starts again: nothing is clamped or defaulted.
C21_SettingsValidated == []ReturnsWhatWasEntered /\ [][RejectedStartsAgain]_vars

\* settings were returned after a rejected line, with the largest interval
C21_Witness ==
    /\ HasReturned
    /\ stdin_pos > 3
    /\ settings.interval = 60
    /\ pc = "read"

----------------------------------------------------------------------------
(* read_groups on files with host identifiers that are no dotted quads *)

\* "10.0.0": three numeric parts
ShortHost == <<10, 0, 0>>
\* "10.0.0.x" and "a.b": a part that int() rejects
NamedHost == <<10, 0, 0, BadPart>>
OtherNamedHost == <<BadPart, BadPart>>

SortLines == {HostLine(H1), HostLine(H2), HostLine(ShortHost), HostLine(NamedHost),
              HostLine(OtherNamedHost), GroupLine("G")}

InitSort == \E f \in SeqsUpTo(SortLines, MaxSortLines) : InitWith(f, 1, 1)

NextSort ==
    \/ ReadLine
    \/ SortGroups

SpecSort == InitSort /\ [][NextSort]_vars

----------------------------------------------------------------------------
(* C22 *)

IsDottedQuad(ip) == Len(ip) = 4 /\ \A i \in 1..Len(ip) : ip[i] \in Nat
IsMalformed(ip) == ~IsDottedQuad(ip)

\* a before b in the numeric order of the four octets, or equal to it
QuadAtMost(a, b) ==
    \/ a = b
    \/ \E i \in 1..4 : a[i] < b[i] /\ \A j \in 1..(i - 1) : a[j] = b[j]

Occurrences(s, x) == Cardinality({i \in 1..Len(s) : s[i] = x})

\* sorted holds the hosts of listed: the dotted quads first, in ascending
\* order, then the other hosts in the order of listed
MalformedLast(listed, sorted) ==
    /\ Len(sorted) = Len(listed)
    /\ \A i \in 1..Len(listed) : Occurrences(sorted, listed[i]) = Occurrences(listed, listed[i])
    /\ \A i \in 1..Len(sorted), j \in 1..Len(sorted) :
           (i < j /\ IsDottedQuad(sorted[j])) =>
               IsDottedQuad(sorted[i]) /\ QuadAtMost(sorted[i], sorted[j])
    /\ SelectSeq(sorted, IsMalformed) = SelectSeq(listed, IsMalformed)

\* C22: the sort at the end of read_groups leaves every group in ascending
\* order of the four octets, with every host that is no dotted quad (a part
\* that is no number, or not exactly four parts) behind every dotted quad of
\* the group, such hosts keeping the order of the file.
C22_MalformedSortLast ==
    [][(pc = "read" /\ pc' = "idle") =>
           \A g \in DOMAIN groups : MalformedLast(groups[g], groups'[g])]_vars

\* a group was sorted that lists a dotted quad, a host of three parts and
\* the two hosts with a part that is no number
C22_Witness ==
    /\ pc = "idle"
    /\ \E g \in DOMAIN groups :
           {groups[g][i] : i \in 1..Len(groups[g])} \in
               {{H1, ShortHost, NamedHost}, {H1, OtherNamedHost, NamedHost}}

----------------------------------------------------------------------------
(* get_display_width, pad_string, format_time and format_result_row, on     *)
(* texts as sequences of code points. A response time is a number of tenths *)
(* of a millisecond, a timestamp a number of seconds since midnight.        *)

Hangul == 44032..55203
CJK == 19968..40959

RECURSIVE get_display_width(_)
get_display_width(text) ==
    IF text = <<>> THEN 0
    ELSE (IF Head(text) \in Hangul \cup CJK THEN 2 ELSE 1) + get_display_width(Tail(text))

\* " " * n, which is empty for n <= 0
Blanks(n) == [i \in 1..n |-> 32]

pad_string(text, width, align) ==
    LET padding == width - get_display_width(text)
        left_padding == padding \div 2
    IN CASE align = "left" -> text \o Blanks(padding)
         [] align = "right" -> Blanks(padding) \o text
         [] OTHER -> Blanks(left_padding) \o text \o Blanks(padding - left_padding)

\* str(n) for n >= 0
RECURSIVE DecimalDigits(_)
DecimalDigits(n) ==
    IF n < 10 THEN <<48 + n>> ELSE DecimalDigits(n \div 10) \o <<48 + (n % 10)>>

TwoDigits(n) == <<48 + (n \div 10), 48 + (n % 10)>>

\* "-" for None, else strftime("%H:%M:%S")
format_time(dt) ==
    IF dt = NoTime THEN <<45>>
    ELSE TwoDigits((dt \div 3600) % 24) \o <<58>> \o TwoDigits((dt \div 60) % 60)
         \o <<58>> \o TwoDigits(dt % 60)

\* f"{response_time:.1f}ms" and "timeout"
response_str(result) ==
    IF result.success
    THEN DecimalDigits(result.response_time \div 10) \o <<46>>
         \o DecimalDigits(result.response_time % 10) \o <<109, 115>>
    ELSE <<116, 105, 109, 101, 111, 117, 116>>

\* the columns of _format_results_sync with their entries of WIDTHS: the
\* headers are the Korean words for server, status and response time, and
\* "<i>th down", "<i>th up"
HistoryColumns(i) ==
    <<[header |-> <<48 + i, 52264, 45130, 44608>>, width |-> 10],
      [header |-> <<48 + i, 52264, 48373, 44396>>, width |-> 10]>>

RECURSIVE HistoryColumnsFrom(_)
HistoryColumnsFrom(i) ==
    IF i > history_count THEN <<>> ELSE HistoryColumns(i) \o HistoryColumnsFrom(i + 1)

Columns ==
    <<[header |-> <<49436, 48260>>, width |-> 15],
      [header |-> <<49345, 53468>>, width |-> 7],
      [header |-> <<51025, 45813, 49884, 44036>>, width |-> 10]>>
    \o HistoryColumnsFrom(1)

WIDTHS == [i \in 1..Len(Columns) |-> Columns[i].width]

RECURSIVE HistoryCells(_, _, _)
HistoryCells(history, widths, i) ==
    IF i >= history_count THEN <<>>
    ELSE <<pad_string(format_time(history[i].down), widths[4 + 2 * i], "left"),
           pad_string(format_time(history[i].up), widths[5 + 2 * i], "left")>>
         \o HistoryCells(history, widths, i + 1)

format_result_row(result, widths, history) ==
    <<pad_string(result.host, widths[1], "left"),
      pad_string(IF result.success THEN <<79>> ELSE <<88>>, widths[2], "left"),
      pad_string(response_str(result), widths[3], "left")>>
    \o HistoryCells(history, widths, 0)

\* header_row of _format_results_sync
header_row == [i \in 1..Len(Columns) |-> pad_string(Columns[i].header, WIDTHS[i], "left")]

\* _format_results_sync formats the row of one result
FormatRow ==
    /\ pc = "render"
    /\ row = <<>>
    /\ row' = format_result_row(row_result, WIDTHS, row_history)
    /\ UNCHANGED <<readVars, settings, sweepVars, hostVars, changed_hosts,
                   processorVars, use_icmplib, sem_capacity, promptVars, gateVars,
                   taskVars, loopVars, row_result, row_history, cacheVars, network>>

\* _format_results_sync formats the header row of a group
FormatHeader ==
    /\ pc = "render"
    /\ row = <<>>
    /\ row' = header_row
    /\ UNCHANGED <<readVars, settings, sweepVars, hostVars, changed_hosts,
                   processorVars, use_icmplib, sem_capacity, promptVars, gateVars,
                   taskVars, loopVars, row_result, row_history, cacheVars, network>>

\* host identifiers: single-width characters followed by Hangul syllables
HostTexts ==
    {[i \in 1..n |-> 97] \o [i \in 1..m |-> 44032] :
        n \in 0..MaxNarrow, m \in 0..MaxWide} \ {<<>>}

\* response times of 0.5 ms, 12.3 ms and 2000.0 ms
ResponseTimes == {5, 123, 20000}

\* a history without entries, one with an open slot and one with a closed slot
RowHistories ==
    {InitialHostStatus.history,
     [InitialHostStatus.history EXCEPT ![0] = [down |-> 45296, up |-> NoTime]],
     [InitialHostStatus.history EXCEPT ![0] = [down |-> 45296, up |-> 86399]]}

\* _format_results_sync about to format a row, for every result and history
InitTable ==
    \E host \in HostTexts, success \in BOOLEAN, rt \in ResponseTimes,
       history \in RowHistories :
        /\ Constructed(RingFile, TRUE, max_concurrent)
        /\ settings = MonitorSettings(1, 1, 1)
        /\ pc = "render"
        /\ PromptsAnswered
        /\ row_result = PingResult(host, success, IF success THEN rt ELSE 0, 1)
        /\ row_history = history
        /\ row = <<>>
        /\ ProcessorCache

NextTable ==
    \/ FormatRow
    \/ FormatHeader

SpecTable == InitTable /\ [][NextTable]_vars

----------------------------------------------------------------------------
(* C23 *)

\* the display width of a text: Hangul and CJK count 2, all else 1
RECURSIVE DisplayWidth(_)
DisplayWidth(text) ==
    IF text = <<>> THEN 0
    ELSE LET c == Head(text)
         IN (IF (44032 <= c /\ c <= 55203) \/ (19968 <= c /\ c <= 40959) THEN 2 ELSE 1)
            + DisplayWidth(Tail(text))

\* C23: every cell that pad_string returns has the display width of its
\* column (15, 7, 10 and 10 for each history column), so every row of a table
\* has the same display width, whatever characters and whatever length the
\* host identifier has.
C23_ColumnsFixed ==
    row # <<>> =>
        /\ Len(row) = 3 + 2 * history_count
        /\ DisplayWidth(row[1]) = 15
        /\ DisplayWidth(row[2]) = 7
        /\ \A i \in 3..Len(row) : DisplayWidth(row[i]) = 10

----------------------------------------------------------------------------
(* LRUCache on its own: every sequence of up to MaxCalls calls of put and  *)
(* get on a cache of 1..MaxCapacity entries. lru_calls logs the calls and  *)
(* what get returned.                                                      *)

CacheKeys == {H1, H2, NamedHost}

TheCache == [cache |-> lru_cache, usage |-> lru_usage, capacity |-> lru_capacity]

CachePut(key, success) ==
    /\ Len(lru_calls) < MaxCalls
    /\ LET value == PingResult(key, success, 0, 1)
           c == LRUCache_put(TheCache, key, value)
       IN /\ lru_cache' = c.cache
          /\ lru_usage' = c.usage
          /\ lru_calls' = Append(lru_calls, [op |-> "put", key |-> key, value |-> value])
    /\ UNCHANGED <<readVars, settings, sweepVars, hostVars, changed_hosts, statistics,
                   rp_last_results, use_icmplib, sem_capacity, promptVars, tableVars,
                   gateVars, taskVars, loopVars, lru_capacity, network>>

\* get returns None for a key that is not cached
CacheGet(key) ==
    /\ Len(lru_calls) < MaxCalls
    /\ LET c == LRUCache_get(TheCache, key)
           returned == IF key \in DOMAIN lru_cache THEN lru_cache[key] ELSE NoResult
       IN /\ lru_cache' = c.cache
          /\ lru_usage' = c.usage
          /\ lru_calls' = Append(lru_calls, [op |-> "get", key |-> key, value |-> returned])
    /\ UNCHANGED <<readVars, settings, sweepVars, hostVars, changed_hosts, statistics,
                   rp_last_results, use_icmplib, sem_capacity, promptVars, tableVars,
                   gateVars, taskVars, loopVars, lru_capacity, network>>

InitCache ==
    \E c \in 1..MaxCapacity :
        /\ Constructed(RingFile, TRUE, max_concurrent)
        /\ settings = MonitorSettings(1, 1, 1)
        /\ pc = "idle"
        /\ PromptsAnswered
        /\ NothingFormatted
        /\ lru_capacity = c
        /\ lru_calls = <<>>

NextCache ==
    \/ \E key \in CacheKeys, success \in BOOLEAN : CachePut(key, success)
    \/ \E key \in CacheKeys : CacheGet(key)

SpecCache == InitCache /\ [][NextCache]_vars

----------------------------------------------------------------------------
(* C24 *)

Cached == DOMAIN lru_cache

\* the number of the last call that put or got key
LastTouch(key) ==
    CHOOSE i \in 1..Len(lru_calls) :
        /\ lru_calls[i].key = key
        /\ \A j \in (i + 1)..Len(lru_calls) : lru_calls[j].key # key

\* the cached key whose last put or get lies furthest back
LeastRecentlyUsed ==
    CHOOSE k \in Cached : \A other \in Cached : LastTouch(k) <= LastTouch(other)

\* at most capacity keys, and the usage queue lists the cached keys, each once
CacheBounded ==
    /\ Cardinality(Cached) <= lru_capacity
    /\ Len(lru_usage) = Cardinality(Cached)
    /\ {lru_usage[i] : i \in 1..Len(lru_usage)} = Cached

\* what a call does to the set of cached keys
CallEvictsLeastRecent ==
    Len(lru_calls') = Len(lru_calls) + 1 =>
        LET call == lru_calls'[Len(lru_calls')]
        IN CASE call.op = "get" -> DOMAIN lru_cache' = Cached
             [] call.op = "put" /\ call.key \in Cached -> DOMAIN lru_cache' = Cached
             [] call.op = "put" /\ call.key \notin Cached
                    /\ Cardinality(Cached) < lru_capacity ->
                        DOMAIN lru_cache' = Cached \cup {call.key}
             [] OTHER ->
                        DOMAIN lru_cache' = (Cached \ {LeastRecentlyUsed}) \cup {call.key}

\* C24: after any sequence of put and get on an LRUCache of capacity c >= 1
\* the cache holds at most c keys and the usage queue holds exactly the cached
\* keys, each once; a put of a new key into a full cache evicts exactly the
\* key least recently put or got, and a put of a cached key evicts nothing.
C24_LeastRecentEvicted == []CacheBounded /\ [][CallEvictsLeastRecent]_vars

\* a cache of two entries: H1 and H2 were put, H1 was got, and the put of a
\* third key evicted H2
C24_Witness ==
    /\ lru_capacity = 2
    /\ Len(lru_calls) = 4
    /\ <<lru_calls[1].op, lru_calls[1].key>> = <<"put", H1>>
    /\ <<lru_calls[2].op, lru_calls[2].key>> = <<"put", H2>>
    /\ <<lru_calls[3].op, lru_calls[3].key>> = <<"get", H1>>
    /\ <<lru_calls[4].op, lru_calls[4].key>> = <<"put", NamedHost>>
    /\ Cached = {H1, NamedHost}

----------------------------------------------------------------------------
(* C25 *)

\* the step leaves the history and the ring index of h as they are
RingUntouched(h) ==
    /\ status_history'[h].history = History(h)
    /\ current_history_index'[h] = current_history_index[h]

\* the step counts a success of h: failures to 0, successes up by one
SuccessCounted(h) ==
    /\ consecutive_failures'[h] = 0
    /\ consecutive_successes'[h] = consecutive_successes[h] + 1

FirstSuccessMakesUp(h) ==
    (SuccessStep(h) /\ LastStatus(h) = StatusNone) =>
        /\ status_history'[h].last_status = StatusUp
        /\ RingUntouched(h)
        /\ SuccessCounted(h)

SuccessOfUpCountsOnly(h) ==
    (SuccessStep(h) /\ LastStatus(h) = StatusUp) =>
        /\ status_history'[h].last_status = StatusUp
        /\ RingUntouched(h)
        /\ (h \in changed_hosts') = (h \in changed_hosts)
        /\ SuccessCounted(h)

\* C25: a successful probe of a host in Unknown makes it Up at that probe,
\* whatever recovery_threshold is, writes nothing to the history and leaves
\* current_history_index unchanged; a success of a host that is already Up
\* changes only the two counters.
C25_FirstSuccessIsUp ==
    [][\A h \in Hosts : FirstSuccessMakesUp(h) /\ SuccessOfUpCountsOnly(h)]_vars

\* with recovery_threshold 2, a host went from Unknown to Up at its first
\* probe and has had a second success since
C25_Witness ==
    /\ settings.recovery_threshold = 2
    /\ \E h \in Hosts :
           /\ LastStatus(h) = StatusUp
           /\ Len(results_cache[h]) = 2
           /\ \A i \in 1..2 : results_cache[h][i].success
           /\ \A i \in Slots : History(h)[i] = EmptySlot

----------------------------------------------------------------------------
(* C26 *)

\* the step appends a result to results_cache[h]
ResultRecorded(h) ==
    /\ h \in DOMAIN results_cache
    /\ h \in DOMAIN results_cache'
    /\ Processed(h)

\* the step leaves everything that is kept for host g as it is
HostUntouched(g) ==
    /\ g \in DOMAIN status_history'
    /\ status_history'[g] = status_history[g]
    /\ current_history_index'[g] = current_history_index[g]
    /\ consecutive_failures'[g] = consecutive_failures[g]
    /\ consecutive_successes'[g] = consecutive_successes[g]
    /\ results_cache'[g] = results_cache[g]
    /\ (g \in changed_hosts') = (g \in changed_hosts)
    /\ (g \in DOMAIN statistics') = (g \in DOMAIN statistics)
    /\ StatisticsOf(statistics', g) = StatisticsOf(statistics, g)
    /\ (g \in DOMAIN rp_last_results') = (g \in DOMAIN rp_last_results)
    /\ g \in DOMAIN rp_last_results => rp_last_results'[g] = rp_last_results[g]

\* C26: processing a probe result for host h (update_host_status, then
\* process_result) changes last_status, history, ring index, both counters
\* and statistics of h only; what is kept for every other host stays as it
\* is, in every order in which the probes of a batch complete.
C26_OnlyOwnHostChanges ==
    [][\A h \in Hosts : ResultRecorded(h) => \A g \in Hosts \ {h} : HostUntouched(g)]_vars

\* both hosts of one batch have their first result, the probe of H2
\* completed before the probe of H1, and the two outcomes differ
C26_Witness ==
    /\ file = MonitorFile
    /\ pc = "sweep"
    /\ {H1, H2} \subseteq DOMAIN statistics
    /\ Len(results_cache[H1]) = 1
    /\ Len(results_cache[H2]) = 1
    /\ lru_usage = <<H2, H1>>
    /\ statistics[H1].last_status # statistics[H2].last_status

----------------------------------------------------------------------------
(* The monitor loop with a render that raises. format_results runs in the  *)
(* thread pool and print writes to standard output; either can raise an    *)
(* Exception (no thread can be started, the pipe behind standard output is *)
(* closed). The handler of the iteration prints the error to the same      *)
(* standard output.                                                        *)

\* format_results or print raises after the sweep: `except Exception` takes
\* over and prints. When that print succeeds (reported), the iteration ends
\* as usual, without a frame and without memory_optimizer.optimize(). When
\* it raises too, the exception leaves the while loop through the finally
\* of monitor_all_groups, which cleans up, and ends the coroutine.
RenderRaises(reported) ==
    /\ pc = "render"
    /\ ~cancel_requested
    /\ screen_update_counter' = IF screen_update_counter + 1 >= screen_clear_every
                                THEN 0 ELSE screen_update_counter + 1
    /\ IF reported
       THEN /\ last_update_time' = current_time
            /\ pc' = "idle"
            /\ UNCHANGED <<hostVars, taskVars, memory_optimizer>>
       ELSE /\ cleanup
            /\ pc' = "failed"
            /\ UNCHANGED <<last_update_time, current_history_index,
                           consecutive_failures, consecutive_successes, group_results>>
    /\ UNCHANGED <<readVars, configVars, clock, batch_no, pending, changed_hosts,
                   processorVars, gateVars, running, current_time, frame,
                   cancel_requested, exit_status>>

\* run_until_complete raises what the coroutine raised: `except Exception`
\* of main prints it and main returns (printed), or that print raises as
\* well, as does the one of the outer handler, and the interpreter ends
\* with status 1
MainFails(printed) ==
    /\ pc = "failed"
    /\ pc' = "exited"
    /\ exit_status' = IF printed THEN 0 ELSE 1
    /\ UNCHANGED <<readVars, configVars, clock, batch_no, pending, hostVars,
                   changed_hosts, processorVars, gateVars, taskVars, running,
                   last_update_time, current_time, screen_update_counter,
                   memory_optimizer, frame, cancel_requested>>

NextFault ==
    \/ ReadLine
    \/ SortGroups
    \/ Poll(MaxLoopTime)
    \/ SweepBegin
    \/ \E p \in DOMAIN tasks : TaskAcquire(p)
    \/ \E p \in DOMAIN tasks : GateAdmit(p)
    \/ \E p \in DOMAIN tasks, spawned \in BOOLEAN : ProbeStart(p, spawned)
    \/ \E p \in DOMAIN tasks, event \in ProbeEvents : ProbeEnds(p, event)
    \/ \E p \in DOMAIN tasks : TaskFinish(p)
    \/ BatchEnd
    \/ Render
    \/ \E reported \in BOOLEAN : RenderRaises(reported)
    \/ \E printed \in BOOLEAN : MainFails(printed)

SpecFault == InitFair /\ [][NextFault]_vars

----------------------------------------------------------------------------
(* C27 *)

\* the step is the part of an iteration behind the sweep (line 558 onwards),
\* run to its end or to an exception
IterationEnds == pc = "render" /\ screen_update_counter' # screen_update_counter

\* C27: an exception raised during a sweep or during rendering does not end
\* the monitor loop: it is caught, the loop stays running with the baseline
\* of the next cycle advanced, and the per-host state updated before the
\* exception is kept, so that a later sweep starts after the interval.
C27_ExceptionKeepsLoop ==
    [][IterationEnds =>
           /\ pc' = "idle"
           /\ running'
           /\ last_update_time' = current_time
           /\ UNCHANGED hostVars]_vars

----------------------------------------------------------------------------
(* C28 *)

OpenSlots(h) == {i \in Slots : IsOpen(History(h)[i])}

RingWellFormed(h) ==
    /\ current_history_index[h] \in 0..(history_count - 1)
    /\ (LastStatus(h) = StatusDown) <=> (OpenSlots(h) # {})
    /\ LastStatus(h) = StatusDown => OpenSlots(h) = {current_history_index[h]}
    /\ \A i \in Slots : History(h)[i].up # NoTime => History(h)[i].down # NoTime

\* C28: in every reachable state and for every host, the ring index lies in
\* 0..history_count-1; the history has an open slot (down set, up None) if
\* and only if last_status is Down, and then exactly one, the slot at
\* current_history_index; and no slot has an up time without a down time.
C28_RingWellFormed == \A h \in Hosts : RingWellFormed(h)

\* the host is Down for the fourth time: the ring has wrapped, the open slot
\* is slot 0 again and the two other slots are closed
C28_Witness ==
    \E h \in Hosts :
        /\ LastStatus(h) = StatusDown
        /\ current_history_index[h] = 0
        /\ \A i \in Slots \ {0} : IsClosed(History(h)[i])
        /\ \A i \in Slots \ {0} : History(h)[i].down < History(h)[0].down

----------------------------------------------------------------------------
(* The monitor loop with small batches: settings.batch_size, 500 in the    *)
(* program, is 1..MaxBatch here, so that a group of two hosts is swept in  *)
(* one batch or in two. The probes are subprocesses behind a gate of one   *)
(* permit.                                                                 *)

InitBatch ==
    \E f \in {MonitorFile, TwoGroupsFile}, b \in 1..MaxBatch :
        InitProgram(f, [MonitorSettings(1, 1, 1) EXCEPT !.batch_size = b],
                    FALSE, 1)

SpecBatch == InitBatch /\ [][NextLoop]_vars

----------------------------------------------------------------------------
(* C29 *)

\* the tasks of ping_server that have not returned
InFlight == {p \in DOMAIN tasks : ~Terminal(tasks[p])}

\* the step creates a ping_server task
Dispatches ==
    \E p \in DOMAIN tasks' :
        /\ tasks'[p].pc = "jitter"
        /\ p \in DOMAIN tasks => tasks[p].pc # "jitter"

\* the probes in flight are tasks of the batch that the one sweep under way
\* is awaiting, and they are at most batch_size
OneBatchInFlight ==
    (InFlight # {} /\ pc # "exited") =>
        /\ pc = "sweep"
        /\ batch_no \in 1..Len(Batches)
        /\ DOMAIN tasks = 1..Len(Batches[batch_no])
        /\ Len(Batches[batch_no]) <= settings.batch_size
        /\ Cardinality(InFlight) <= settings.batch_size

\* a batch is dispatched, the sweep is left for the render, and a frame is
\* rendered, only when no probe is in flight
DispatchAndRenderWhenQuiet ==
    /\ Dispatches => InFlight = {}
    /\ (pc = "sweep" /\ pc' = "render") => InFlight = {}
    /\ frame' # frame => (InFlight = {} /\ DOMAIN tasks' = {})

\* C29: sweeps never overlap and batches run strictly one after another: all
\* probes in flight belong to one batch of one group of one sweep (at most
\* batch_size of them), the next batch or group is not dispatched until
\* every probe of the current batch has returned, and the render of a cycle
\* reads the host state only when no probe is in flight.
C29_OneBatchAtATime == []OneBatchInFlight /\ [][DispatchAndRenderWhenQuiet]_vars

\* the second batch of a group of two hosts is in flight, with batches of one
\* host, while the interval has run out again since the sweep began
C29_Witness ==
    /\ file = MonitorFile
    /\ settings.batch_size = 1
    /\ pc = "sweep"
    /\ batch_no = 2
    /\ InFlight # {}
    /\ clock - current_time >= settings.interval

----------------------------------------------------------------------------
(* The single-host monitor under fair scheduling, with hosts that die or   *)
(* come back for good. network[h] = "down" says that every probe of h      *)
(* fails from now on, "up" that every probe succeeds; a host that is not   *)
(* in network may answer or not.                                           *)

\* the host turns unreachable, or reachable, for good; the monitor is
\* followed for at least MaxThreshold sweeps from there
Settle(h, fate) ==
    /\ h \in DOMAIN status_history
    /\ h \notin DOMAIN network
    /\ pc \in {"idle", "sweep"}
    /\ MaxDebounceSweeps - clock >= MaxThreshold
    /\ network' = Put(network, h, fate)
    /\ UNCHANGED <<readVars, settings, sweepVars, hostVars, changed_hosts,
                   processorVars, use_icmplib, sem_capacity, promptVars, tableVars,
                   cacheVars, gateVars, taskVars, loopVars>>

\* the outcome is one the network allows for the host at position p
Allowed(p, outcome) ==
    LET host == Batches[batch_no][p]
    IN host \in DOMAIN network => (outcome.success <=> network[host] = "up")

\* ping_server returns for the task at position p
Probe(p, outcome) ==
    /\ pc = "sweep"
    /\ p \in pending
    /\ Allowed(p, outcome)
    /\ PingServer(p, outcome)

InitDebounce == \E f \in Thresholds, r \in Thresholds : InitWith(RingFile, f, r)

NextDebounce ==
    \/ ReadLine
    \/ SortGroups
    \/ StartSweep(MaxDebounceSweeps)
    \/ \E p \in pending, o \in ProbeOutcomes : Probe(p, o)
    \/ BatchDone
    \/ \E h \in {H1}, fate \in {"down", "up"} : Settle(h, fate)

\* a step of the monitor: the loop and its tasks go on whenever they can
MonitorStep ==
    \/ ReadLine
    \/ SortGroups
    \/ StartSweep(MaxDebounceSweeps)
    \/ \E p \in pending, o \in ProbeOutcomes : Probe(p, o)
    \/ BatchDone

SpecDebounce == InitDebounce /\ [][NextDebounce]_vars /\ WF_vars(MonitorStep)

----------------------------------------------------------------------------
(* C30 *)

FailsForGood(h) == h \in DOMAIN network /\ network[h] = "down"
SucceedsForGood(h) == h \in DOMAIN network /\ network[h] = "up"

IsDown(h) == h \in Hosts /\ LastStatus(h) = StatusDown
IsUpAndClosed(h) ==
    /\ h \in Hosts
    /\ LastStatus(h) = StatusUp
    /\ \A i \in Slots : ~IsOpen(History(h)[i])

\* C30: under fair scheduling of sweeps debouncing always commits: a host
\* whose probes all fail from some sweep on eventually becomes Down and
\* stays Down; a (Down) host whose probes all succeed from some sweep on
\* eventually becomes Up with its open slot closed, and stays Up.
C30_DebounceCommits ==
    /\ FailsForGood(H1) ~> [](IsDown(H1))
    /\ SucceedsForGood(H1) ~> [](IsUpAndClosed(H1))

\* a host that was Down came back for good and is Up with the slot closed
\* after recovery_threshold = 2 successes
C30_Witness ==
    /\ SucceedsForGood(H1)
    /\ settings.recovery_threshold = 2
    /\ IsUpAndClosed(H1)
    /\ \E i \in Slots : IsClosed(History(H1)[i])
    /\ consecutive_successes[H1] >= 2

====
